---- MODULE Spec2Model ----
(***************************************************************************)
(* Model of the light-node deployment pipeline of fisco_autolight_client:  *)
(* DeployCoordinator.execute_deployment and the collaborators it drives    *)
(* (certificate client, asset client, LightnodeBuilder, certificate        *)
(* overlay, start.sh, console deployment), over an abstract file tree of   *)
(* the output directory.                                                   *)
(*                                                                         *)
(* A path is a sequence of names relative to output_dir.  The file tree    *)
(* maps every path of the finite universe Paths to "absent", "dir" or the  *)
(* content tag of a regular file.  A message is a sequence of text parts;  *)
(* Python's f-string concatenation is \o.  Permission bits are not part of *)
(* the state.                                                              *)
(***************************************************************************)
EXTENDS Integers, Sequences, FiniteSets, TLC

\* -------------------------------------------------------------------------
\* Bounds of the model
\* -------------------------------------------------------------------------

\* how many entries of the output directory the file system refuses to delete
MaxUndeletable == 1

\* how many direct calls of a worker function follow each other
MaxDirectCalls == 2

\* how many chunks the console process writes in a session
MaxChunks == 2

\* how many text messages the remote end sends in a session
MaxTyped == 2

\* up to which number consecutive read timeouts are counted
MaxTimeouts == 2

\* how many messages the deployment task pushes to the log queue
MaxPushed == 5

\* -------------------------------------------------------------------------
\* Paths and the file tree
\* -------------------------------------------------------------------------

\* entries a lightnode directory may hold, relative to it
LnEntries ==
  { <<"start.sh">>, <<"stop.sh">>, <<"fisco-bcos-lightnode">>,
    <<"conf">>, <<"conf", "ssl.key">>, <<"conf", "ssl.crt">>, <<"conf", "ca.crt">>,
    <<"config.genesis">>, <<"nodes.json">>,
    <<"sdk">>, <<"sdk", "sdk.crt">> }

P_conf      == <<"conf">>
P_node_key  == <<"conf", "node.key">>
P_node_crt  == <<"conf", "node.crt">>
P_ca_crt    == <<"conf", "ca.crt">>
P_ssl_key   == <<"conf", "ssl.key">>
P_ssl_crt   == <<"conf", "ssl.crt">>
P_script    == <<"build_chain.sh">>
P_bin       == <<"bin">>
P_bcos      == <<"bin", "fisco-bcos">>
P_lightbin  == <<"fisco-bcos-lightnode">>
P_nodes     == <<"nodes">>
P_host      == <<"nodes", "127.0.0.1">>
P_lightnode == <<"lightnode">>

\* the places a directory named lightnode can be at
LnRoots ==
  { P_lightnode, P_nodes \o <<"lightnode">>, P_host \o <<"lightnode">>,
    P_lightnode \o <<"lightnode">> }

Paths ==
  { P_conf, P_node_key, P_node_crt, P_ca_crt, P_ssl_key, P_ssl_crt,
    P_script, P_bin, P_bcos, P_lightbin, P_nodes, P_host,
    P_host \o <<"sdk">>, P_host \o <<"sdk", "sdk.crt">> }
  \cup LnRoots
  \cup { r \o e : r \in LnRoots, e \in LnEntries }

ABSENT == "absent"
DIR    == "dir"

IsPrefix(a, p) == Len(a) <= Len(p) /\ SubSeq(p, 1, Len(a)) = a
Suffix(a, p)   == SubSeq(p, Len(a) + 1, Len(p))
Parent(p)      == SubSeq(p, 1, Len(p) - 1)
Basename(p)    == p[Len(p)]
\* p and its ancestors below output_dir
Ancestors(p)   == { SubSeq(p, 1, i) : i \in 1..Len(p) }
Under(root)    == { p \in Paths : IsPrefix(root, p) }
Children(d)    == { p \in Paths : Len(p) = Len(d) + 1 /\ IsPrefix(d, p) }

\* os.path.exists / os.path.isdir; output_dir itself always is a directory
Exists(f, p) == p = <<>> \/ (p \in Paths /\ f[p] # ABSENT)
IsDir(f, p)  == p = <<>> \/ (p \in Paths /\ f[p] = DIR)
IsFile(f, p) == p \in Paths /\ f[p] \notin {ABSENT, DIR}

EmptyTree == [p \in Paths |-> ABSENT]

\* os.makedirs(p, exist_ok=True): raises when p or an ancestor is a file
CanMakeDirs(f, p) == \A q \in Ancestors(p) : ~IsFile(f, q)
MakeDirs(f, p)    == [q \in Paths |-> IF q \in Ancestors(p) THEN DIR ELSE f[q]]

\* open(p, "w"): raises when the parent is no directory or p is a directory
CanWrite(f, p)    == IsDir(f, Parent(p)) /\ ~IsDir(f, p)
WriteFile(f, p, c) == [q \in Paths |-> IF q = p THEN c ELSE f[q]]

\* the tree whose entries below root are gone, except the entries of keep
\* (entries that could not be deleted) and the directories leading to them
Survivors(root, keep) ==
  { q \in Under(root) : \E k \in keep : IsPrefix(q, k) }
RemoveTree(f, root, keep) ==
  [q \in Paths |-> IF IsPrefix(root, q) /\ q \notin Survivors(root, keep)
                   THEN ABSENT ELSE f[q]]

\* the entries shutil.rmtree(root) cannot delete: those at the paths und the
\* file system refuses to delete; a root that is a regular file is not
\* deleted at all (rmtree fails on a non-directory)
rmtree_keeps(f, root, und) ==
  IF IsFile(f, root) THEN { root }
  ELSE { q \in Under(root) : Exists(f, q) /\ q \in und }

\* os.rename(src, dst) of a directory tree onto an absent dst
RenameTree(f, src, dst) ==
  [q \in Paths |->
     IF IsPrefix(dst, q)
       THEN (IF (src \o Suffix(dst, q)) \in Paths THEN f[src \o Suffix(dst, q)] ELSE ABSENT)
     ELSE IF IsPrefix(src, q) THEN ABSENT
     ELSE f[q]]

\* shutil.copytree(src, dst, dirs_exist_ok=True): src's entries are written
\* over dst, entries only dst has are kept
CopyTree(f, src, dst) ==
  [q \in Paths |->
     IF IsPrefix(dst, q) /\ (src \o Suffix(dst, q)) \in Paths
                         /\ f[src \o Suffix(dst, q)] # ABSENT
       THEN f[src \o Suffix(dst, q)]
     ELSE f[q]]

\* copytree raises when a directory of src meets a regular file in dst or a
\* regular file of src meets a directory in dst
CanCopyTree(f, src, dst) ==
  \A q \in Under(dst) :
     LET s == src \o Suffix(dst, q) IN
       (s \in Paths /\ f[s] # ABSENT /\ f[q] # ABSENT) => ((f[s] = DIR) <=> (f[q] = DIR))

\* os.walk(root) top-down, "name in dirs" at the first directory visited that
\* has such a child: the directory listing order is the file system's, so any
\* match not below another match's parent level can be the first
RECURSIVE WalkFind(_, _, _)
WalkFind(f, root, name) ==
  IF IsDir(f, root \o <<name>>) THEN { root \o <<name>> }
  ELSE UNION { WalkFind(f, d, name) : d \in { c \in Children(root) : f[c] = DIR } }

\* -------------------------------------------------------------------------
\* Step results and texts
\* -------------------------------------------------------------------------

\* one StepResult (ok, msg) with the tree the step left, the external
\* requests and subprocesses it issued in order (ev), and remarks on the path
\* taken through the step (note)
Out(f, ok, msg, ev, note) ==
  [fs |-> f, ok |-> ok, msg |-> msg, ev |-> ev, note |-> note]

\* remark of a step function that lets an exception escape
N_RAISED == "exception escapes"

\* texts of the exceptions the network and the file system raise
NetErrors == { "quota exceeded", "connection refused" }
IoError   == "permission denied"

\* content tags of the files the collaborators write
C_KEY == "node private key"
C_CRT == "node certificate"
C_CA  == "ca bundle"
C_EMPTY == "empty"

\* -------------------------------------------------------------------------
\* Stage 1: CertificateClient.issue_new_certificate
\* -------------------------------------------------------------------------
EV_CHALLENGE == "POST /ca/request-challenge"
EV_ISSUE     == "POST /ca/issue-certificate"
MSG_CERT_NET     == "network request failed: "
MSG_CERT_UNKNOWN == "unknown error: "
MSG_CERT_OK      == "certificate and key saved to conf"

issue_new_certificate(f) ==
  IF ~CanMakeDirs(f, P_conf)
    THEN { Out(f, FALSE, <<MSG_CERT_UNKNOWN, "FileExistsError">>, <<>>, {}) }
  ELSE LET f1 == MakeDirs(f, P_conf) IN
  IF ~CanWrite(f1, P_node_key)
    THEN { Out(f1, FALSE, <<MSG_CERT_UNKNOWN, "IsADirectoryError">>, <<>>, {}) }
  ELSE LET f2 == WriteFile(f1, P_node_key, C_KEY) IN
    \* the challenge request fails, or its answer has no "challenge" field
    { Out(f2, FALSE, <<MSG_CERT_NET, e>>, <<EV_CHALLENGE>>, {}) : e \in NetErrors }
    \cup { Out(f2, FALSE, <<MSG_CERT_UNKNOWN, "KeyError">>, <<EV_CHALLENGE>>, {}) }
    \* the issue request fails
    \cup { Out(f2, FALSE, <<MSG_CERT_NET, e>>, <<EV_CHALLENGE, EV_ISSUE>>, {}) : e \in NetErrors }
    \* the answer is saved: node.crt, then ca.crt; each file is opened
    \* (truncated) before its field of the answer is decoded
    \cup (IF ~CanWrite(f2, P_node_crt)
            THEN { Out(f2, FALSE, <<MSG_CERT_UNKNOWN, "IsADirectoryError">>,
                       <<EV_CHALLENGE, EV_ISSUE>>, {}) }
          ELSE { Out(WriteFile(f2, P_node_crt, C_EMPTY), FALSE,
                     <<MSG_CERT_UNKNOWN, "KeyError">>, <<EV_CHALLENGE, EV_ISSUE>>, {}) }
               \cup
               (LET f3 == WriteFile(f2, P_node_crt, C_CRT) IN
                 IF ~CanWrite(f3, P_ca_crt)
                   THEN { Out(f3, FALSE, <<MSG_CERT_UNKNOWN, "IsADirectoryError">>,
                              <<EV_CHALLENGE, EV_ISSUE>>, {}) }
                 ELSE { Out(WriteFile(f3, P_ca_crt, C_CA), TRUE, <<MSG_CERT_OK>>,
                            <<EV_CHALLENGE, EV_ISSUE>>, {}) }))

\* -------------------------------------------------------------------------
\* Stage 2: download_build_script
\* -------------------------------------------------------------------------
EV_GET_SCRIPT == "GET /lightnode/build_chain.sh"
C_SCRIPT == "build_chain.sh text"
MSG_SCRIPT_NET  == "fetching build_chain.sh failed: "
MSG_SCRIPT_SAVE == "saving build_chain.sh failed: "
MSG_SCRIPT_OK   == "build_chain.sh saved and made executable"

download_build_script(f) ==
  { Out(f, FALSE, <<MSG_SCRIPT_NET, e>>, <<EV_GET_SCRIPT>>, {}) : e \in NetErrors }
  \cup (IF CanWrite(f, P_script)
          THEN { Out(WriteFile(f, P_script, C_SCRIPT), TRUE, <<MSG_SCRIPT_OK>>,
                     <<EV_GET_SCRIPT>>, {}) }
        ELSE { Out(f, FALSE, <<MSG_SCRIPT_SAVE, "IsADirectoryError">>,
                   <<EV_GET_SCRIPT>>, {}) })

\* -------------------------------------------------------------------------
\* Stage 3: download_binaries
\* -------------------------------------------------------------------------

\* values of sys.platform, as sequences of characters
PLATFORM_linux   == <<"l", "i", "n", "u", "x">>
PLATFORM_linux2  == <<"l", "i", "n", "u", "x", "2">>
PLATFORM_darwin  == <<"d", "a", "r", "w", "i", "n">>
PLATFORM_win32   == <<"w", "i", "n", "3", "2">>
PLATFORM_freebsd == <<"f", "r", "e", "e", "b", "s", "d", "1", "3">>
PLATFORM_lin     == <<"l", "i", "n">>
Platforms ==
  { PLATFORM_linux, PLATFORM_linux2, PLATFORM_darwin, PLATFORM_win32,
    PLATFORM_freebsd, PLATFORM_lin }

\* str.startswith
StartsWith(s, prefix) == IsPrefix(prefix, s)

\* every platform but darwin taken for linux
platform_param_default_linux(plat) ==
  IF plat = PLATFORM_darwin THEN "macos" ELSE "linux"

\* "linux" | "macos" | None
platform_param(plat) ==
  IF StartsWith(plat, PLATFORM_linux) THEN "linux"
  ELSE IF plat = PLATFORM_darwin THEN "macos"
  ELSE "None"

EV_GET_EXEC(param) ==
  IF param = "linux" THEN "GET /lightnode/executions/linux"
  ELSE "GET /lightnode/executions/macos"
EV_GET_LINK == "GET download link"
C_BIN == "fisco-bcos binary"
MSG_BIN_WINDOWS   == "Windows is not supported for light node deployment"
MSG_BIN_PLATFORM  == "unsupported operating system: "
MSG_BIN_LINK_EMPTY == "download link of the executable is empty"
MSG_BIN_EMPTY     == "content of the executable is empty"
MSG_BIN_NET       == "downloading the binary failed: "
MSG_BIN_SAVE      == "saving the binary failed: "
MSG_BIN_OK        == "binaries downloaded and made executable"

\* what the first request answers: the bytes themselves, a link to them, an
\* empty link, or empty bytes
ExecAnswers == { "bytes", "link", "empty link", "no bytes" }
\* what the request of the link answers
LinkAnswers == { "bytes", "no bytes" }

\* write_binary to bin/fisco-bcos, then to fisco-bcos-lightnode
save_binaries(f, ev) ==
  IF ~(CanMakeDirs(f, P_bin) /\ CanWrite(MakeDirs(f, P_bin), P_bcos))
    THEN { Out(f, FALSE, <<MSG_BIN_SAVE, "OSError">>, ev, {}) }
  ELSE LET f1 == WriteFile(MakeDirs(f, P_bin), P_bcos, C_BIN) IN
    IF ~CanWrite(f1, P_lightbin)
      THEN { Out(f1, FALSE, <<MSG_BIN_SAVE, "IsADirectoryError">>, ev, {}) }
    ELSE { Out(WriteFile(f1, P_lightbin, C_BIN), TRUE, <<MSG_BIN_OK>>, ev, {}) }

download_binaries(plat, f) ==
  IF plat = PLATFORM_win32
    THEN { Out(f, FALSE, <<MSG_BIN_WINDOWS>>, <<>>, {}) }
  ELSE IF platform_param(plat) = "None"
    THEN { Out(f, FALSE, <<MSG_BIN_PLATFORM>> \o plat, <<>>, {}) }
  ELSE LET get1 == EV_GET_EXEC(platform_param(plat)) IN
    { Out(f, FALSE, <<MSG_BIN_NET, e>>, <<get1>>, {}) : e \in NetErrors }
    \cup UNION { CASE a = "bytes"      -> save_binaries(f, <<get1>>)
                   [] a = "no bytes"   -> { Out(f, FALSE, <<MSG_BIN_EMPTY>>, <<get1>>, {}) }
                   [] a = "empty link" -> { Out(f, FALSE, <<MSG_BIN_LINK_EMPTY>>, <<get1>>, {}) }
                   [] a = "link" ->
                        { Out(f, FALSE, <<MSG_BIN_NET, e>>, <<get1, EV_GET_LINK>>, {}) :
                            e \in NetErrors }
                        \cup UNION { IF b = "bytes"
                                       THEN save_binaries(f, <<get1, EV_GET_LINK>>)
                                     ELSE { Out(f, FALSE, <<MSG_BIN_EMPTY>>,
                                                <<get1, EV_GET_LINK>>, {}) } :
                                     b \in LinkAnswers }
                 : a \in ExecAnswers }

\* -------------------------------------------------------------------------
\* Stage 4: LightnodeBuilder.run_build
\* -------------------------------------------------------------------------
EV_BUILD == "bash build_chain.sh"
C_BUILT  == "generated by build_chain.sh"
C_START  == "start script"
C_STOP   == "stop script"
C_SDKCRT == "sdk certificate"
MSG_BUILD_NO_SCRIPT   == "build script does not exist: build_chain.sh"
MSG_BUILD_NO_BCOS     == "missing fisco-bcos executable: bin/fisco-bcos"
MSG_BUILD_NO_LIGHTBIN == "missing fisco-bcos-lightnode executable: fisco-bcos-lightnode"
MSG_BUILD_FAILED      == "build failed: "
MSG_BUILD_NO_LIGHTNODE == "build finished but no lightnode directory found in nodes"
MSG_BUILD_OK          == "light node build finished"

\* the entries build_chain.sh leaves for a light node at root ln
LightnodeTree(ln, start, full) ==
  [p \in ({ ln, ln \o <<"conf">>, ln \o <<"stop.sh">> }
          \cup (IF start = ABSENT THEN {} ELSE { ln \o <<"start.sh">> })
          \cup (IF full THEN { ln \o <<"conf", "ssl.key">>, ln \o <<"conf", "ssl.crt">>,
                                ln \o <<"conf", "ca.crt">>, ln \o <<"config.genesis">>,
                                ln \o <<"nodes.json">>, ln \o <<"fisco-bcos-lightnode">> }
                ELSE {}))
     |-> IF p \in { ln, ln \o <<"conf">> } THEN DIR
         ELSE IF p = ln \o <<"start.sh">> THEN start
         ELSE IF p = ln \o <<"stop.sh">> THEN (IF full THEN C_STOP ELSE C_EMPTY)
         ELSE IF p = ln \o <<"fisco-bcos-lightnode">> THEN C_BIN
         ELSE C_BUILT]

SdkTree ==
  [p \in { P_host, P_host \o <<"sdk">>, P_host \o <<"sdk", "sdk.crt">> }
     |-> IF p = P_host \o <<"sdk", "sdk.crt">> THEN C_SDKCRT ELSE DIR]

NodesOnly == [p \in { P_nodes } |-> DIR]
HostOnly  == [p \in { P_nodes, P_host } |-> DIR]

\* the union of two trees with disjoint or agreeing entries
Merge(t1, t2) == [p \in (DOMAIN t1) \cup (DOMAIN t2) |-> IF p \in DOMAIN t1 THEN t1[p] ELSE t2[p]]

\* what the build tool may leave below output_dir: nothing; a nodes directory
\* without light node; nodes/lightnode with the node's sdk next to it;
\* nodes/lightnode with empty start.sh and stop.sh only; nodes/lightnode
\* without start.sh; the light node one level deeper, at nodes/127.0.0.1
BuildLayouts ==
  { [p \in {} |-> ABSENT],
    Merge(HostOnly, SdkTree),
    Merge(NodesOnly, Merge(LightnodeTree(P_nodes \o <<"lightnode">>, C_START, TRUE), SdkTree)),
    Merge(NodesOnly, LightnodeTree(P_nodes \o <<"lightnode">>, C_EMPTY, FALSE)),
    Merge(NodesOnly, Merge(LightnodeTree(P_nodes \o <<"lightnode">>, ABSENT, TRUE), SdkTree)),
    Merge(NodesOnly, Merge(SdkTree, LightnodeTree(P_host \o <<"lightnode">>, C_START, TRUE))) }

\* the tool writes its layout over the tree; it cannot where a directory of
\* the layout is a regular file or a file of the layout is a directory
CanApply(f, layout) ==
  \A p \in DOMAIN layout : f[p] # ABSENT => ((f[p] = DIR) <=> (layout[p] = DIR))
Apply(f, layout) == [p \in Paths |-> IF p \in DOMAIN layout THEN layout[p] ELSE f[p]]

\* str.strip() on the texts build_chain.sh prints
strip(text) ==
  CASE text = "stderr text\n" -> "stderr text"
    [] text = "stdout text\n" -> "stdout text"
    [] OTHER -> ""

\* how subprocess.run of build_chain.sh ends with a non-zero exit code
BuildFailures ==
  { [returncode |-> 1, stderr |-> e, stdout |-> o] :
      e \in { "", "\n", "stderr text\n" }, o \in { "", "stdout text\n" } }
BuildSuccess == [returncode |-> 0, stderr |-> "", stdout |-> "stdout text\n"]
NoBuildRun   == [returncode |-> -1, stderr |-> "", stdout |-> ""]

\* Python's  a or b  on strings
StrOr(a, b) == IF a # "" THEN a ELSE b

\* a step outcome with the run of the build tool
OutRun(o, run) ==
  [fs |-> o.fs, ok |-> o.ok, msg |-> o.msg, ev |-> o.ev, note |-> o.note, run |-> run]

\* run_build taking exit code 0 for success without looking for the light node
build_verdict_unverified(f) == Out(f, TRUE, <<MSG_BUILD_OK>>, <<EV_BUILD>>, {})

\* the checks of run_build after exit code 0
build_verdict(f) ==
  IF ~IsDir(f, P_nodes \o <<"lightnode">>)
     /\ (~IsDir(f, P_nodes) \/ WalkFind(f, P_nodes, "lightnode") = {})
    THEN Out(f, FALSE, <<MSG_BUILD_NO_LIGHTNODE>>, <<EV_BUILD>>, {})
  ELSE Out(f, TRUE, <<MSG_BUILD_OK>>, <<EV_BUILD>>, {})

\* the message of run_build for a non-zero exit code, with the texts unstripped
build_failure_message_unstripped(run) == <<MSG_BUILD_FAILED, StrOr(run.stderr, run.stdout)>>

\* the message of run_build for a non-zero exit code
build_failure_message(run) == <<MSG_BUILD_FAILED, StrOr(strip(run.stderr), strip(run.stdout))>>

MSG_BUILD_EXCEPTION     == "running the build failed: "

\* run_build from the call of subprocess.run on
run_build_subprocess(f) ==
    \* the subprocess could not be spawned
    { OutRun(Out(f, FALSE, <<MSG_BUILD_EXCEPTION, IoError>>, <<>>, {}), NoBuildRun) }
    \* non-zero exit code: the tool left the tree alone or left a part
    \cup
    { OutRun(Out(g, FALSE, build_failure_message(run), <<EV_BUILD>>, {}), run) :
        g \in { f } \cup (IF CanApply(f, NodesOnly) THEN { Apply(f, NodesOnly) } ELSE {}),
        run \in BuildFailures }
    \* exit code 0
    \cup { OutRun(build_verdict(Apply(f, layout)), BuildSuccess) :
             layout \in { l \in BuildLayouts : CanApply(f, l) } }

\* run_build testing the two executables in the other order
run_build_lightbin_first(f) ==
  IF ~Exists(f, P_script)
    THEN { OutRun(Out(f, FALSE, <<MSG_BUILD_NO_SCRIPT>>, <<>>, {}), NoBuildRun) }
  ELSE IF ~Exists(f, P_lightbin)
    THEN { OutRun(Out(f, FALSE, <<MSG_BUILD_NO_LIGHTBIN>>, <<>>, {}), NoBuildRun) }
  ELSE IF ~Exists(f, P_bcos)
    THEN { OutRun(Out(f, FALSE, <<MSG_BUILD_NO_BCOS>>, <<>>, {}), NoBuildRun) }
  ELSE run_build_subprocess(f)

run_build(f) ==
  IF ~Exists(f, P_script)
    THEN { OutRun(Out(f, FALSE, <<MSG_BUILD_NO_SCRIPT>>, <<>>, {}), NoBuildRun) }
  ELSE IF ~Exists(f, P_bcos)
    THEN { OutRun(Out(f, FALSE, <<MSG_BUILD_NO_BCOS>>, <<>>, {}), NoBuildRun) }
  ELSE IF ~Exists(f, P_lightbin)
    THEN { OutRun(Out(f, FALSE, <<MSG_BUILD_NO_LIGHTBIN>>, <<>>, {}), NoBuildRun) }
  ELSE run_build_subprocess(f)

\* -------------------------------------------------------------------------
\* Stage 5: LightnodeBuilder.promote_and_cleanup
\* -------------------------------------------------------------------------
MSG_PROMOTE_NO_NODES     == "nodes directory not found: nodes"
MSG_PROMOTE_NO_LIGHTNODE == "no lightnode directory found under nodes"
MSG_PROMOTE_FAILED       == "directory promotion failed: "
MSG_PROMOTE_OK           == "directory promotion finished: lightnode"

\* remarks on the path a promotion took
N_MOVED      == "shutil.move succeeded"
N_COPIED     == "copytree fallback taken"
N_DST_ERROR  == "errors while removing the old lightnode"
N_NODES_ERROR == "errors while removing nodes"
N_SDK_COPIED  == "sdk copied"
N_SDK_FAILED  == "copying sdk failed, printed and ignored"

\* a removal of the entries below root that leaves root itself
rmtree_keeping_root(f, root, und) ==
  RemoveTree(f, root, rmtree_keeps(f, root, und) \cup { root })

\* the tree shutil.rmtree(root, ignore_errors=True) leaves
rmtree_ignore_errors(f, root, und) == RemoveTree(f, root, rmtree_keeps(f, root, und))

\* shutil.move(src, dst) of a directory: the trees it can leave, and whether
\* it raised.  An existing directory dst receives src as dst/basename(src)
\* unless that exists; os.rename may fail across devices, then the tree is
\* copied and src removed, and the copy may fail, and the removal raises at
\* an entry it cannot delete
shutil_move(f, src, dst, und) ==
  LET real_dst == IF IsDir(f, dst) THEN dst \o <<Basename(src)>> ELSE dst
      copied   == CopyTree(f, src, real_dst)
  IN IF Exists(f, real_dst)
       THEN { [fs |-> f, raised |-> TRUE] }
     ELSE { [fs |-> RenameTree(f, src, real_dst), raised |-> FALSE] }
          \cup { [fs |-> WriteFile(f, real_dst, DIR), raised |-> TRUE] }
          \cup (IF rmtree_keeps(f, src, und) = {} THEN {}
                ELSE { [fs |-> copied, raised |-> TRUE],
                       [fs |-> rmtree_ignore_errors(copied, src, und), raised |-> TRUE] })

\* shutil.copytree(src, dst, dirs_exist_ok=True) of the fallback: the trees
\* it can leave, and whether it raised
copytree_fallback(f, src, dst) ==
  IF IsFile(f, dst) \/ ~CanCopyTree(f, src, dst)
    THEN { [fs |-> f, raised |-> TRUE] }
  ELSE { [fs |-> CopyTree(f, src, dst), raised |-> FALSE],
         [fs |-> f, raised |-> TRUE] }

\* a promotion that removes lightnode/sdk and reports the copy without making it
copy_sdk_not_copying(f, dst, und) ==
  LET found   == WalkFind(f, P_nodes, "sdk")
      sdk_dst == dst \o <<"sdk">>
  IN IF found = {} THEN { [fs |-> f, note |-> {}] }
     ELSE LET g == IF Exists(f, sdk_dst)
                     THEN rmtree_ignore_errors(f, sdk_dst, und) ELSE f
          IN { [fs |-> g, note |-> { N_SDK_COPIED }] }

\* the sdk directory found under nodes is copied to lightnode/sdk, after an
\* existing lightnode/sdk was removed; a failing copy is printed and ignored
copy_sdk(f, dst, und) ==
  LET found   == WalkFind(f, P_nodes, "sdk")
      sdk_dst == dst \o <<"sdk">>
  IN IF found = {} THEN { [fs |-> f, note |-> {}] }
     ELSE LET g == IF Exists(f, sdk_dst)
                     THEN rmtree_ignore_errors(f, sdk_dst, und) ELSE f
          IN UNION { IF Exists(g, sdk_dst) THEN { [fs |-> g, note |-> { N_SDK_FAILED }] }
                     ELSE { [fs |-> CopyTree(g, sdk_src, sdk_dst), note |-> { N_SDK_COPIED }],
                            [fs |-> g, note |-> { N_SDK_FAILED }] } :
                     sdk_src \in found }

\* promote_and_cleanup from the point on where src_lightnode is known
promote_from(f, src, und) ==
  LET dst == P_lightnode
      cleared == IF Exists(f, dst) THEN rmtree_ignore_errors(f, dst, und) ELSE f
      \* after the move, or after the fallback when the move raised
      placed(g) ==
        UNION { IF ~m.raised THEN { [fs |-> m.fs, failed |-> FALSE, how |-> N_MOVED] }
                ELSE { [fs |-> c.fs, failed |-> c.raised, how |-> N_COPIED] :
                         c \in copytree_fallback(m.fs, src, dst) } :
                m \in shutil_move(g, src, dst, und) }
      finish(g, r) ==
        IF r.failed
          THEN { Out(r.fs, FALSE, <<MSG_PROMOTE_FAILED, IoError>>, <<>>, { r.how }) }
        ELSE { Out(rmtree_ignore_errors(h.fs, P_nodes, und), TRUE, <<MSG_PROMOTE_OK>>, <<>>,
                   { r.how } \cup h.note
                   \cup (IF Exists(g, dst) THEN { N_DST_ERROR } ELSE {})
                   \cup (IF rmtree_keeps(h.fs, P_nodes, und) # {}
                           THEN { N_NODES_ERROR } ELSE {})) :
                 h \in copy_sdk(r.fs, dst, und) }
  IN UNION { finish(cleared, r) : r \in placed(cleared) }

\* the promotion without the check that nodes is a directory
promote_and_cleanup_unchecked(f, und) ==
  LET found == WalkFind(f, P_nodes, "lightnode")
  IN IF found = {}
       THEN { Out(f, FALSE, <<MSG_PROMOTE_NO_LIGHTNODE>>, <<>>, {}) }
     ELSE UNION { promote_from(f, src, und) : src \in found }

promote_and_cleanup(f, und) ==
  IF ~IsDir(f, P_nodes)
    THEN { Out(f, FALSE, <<MSG_PROMOTE_NO_NODES>>, <<>>, {}) }
  ELSE LET found == IF IsDir(f, P_nodes \o <<"lightnode">>)
                      THEN { P_nodes \o <<"lightnode">> }
                    ELSE WalkFind(f, P_nodes, "lightnode")
       IN IF found = {}
            THEN { Out(f, FALSE, <<MSG_PROMOTE_NO_LIGHTNODE>>, <<>>, {}) }
          ELSE UNION { promote_from(f, src, und) : src \in found }

\* -------------------------------------------------------------------------
\* Stage 6: overlay_lightnode_certificates
\* -------------------------------------------------------------------------
MSG_OVERLAY_MISSING == "source certificates missing: node.key/node.crt/ca.crt expected"
MSG_OVERLAY_FAILED  == "overlaying the light node certificates failed: "
MSG_OVERLAY_OK      == "light node certificates overlaid to lightnode/conf"

\* shutil.copy2(s, d) for each pair in order; a copy that raises ends the
\* overlay with the copies made so far
RECURSIVE copy_pairs(_, _)
copy_pairs(f, pairs) ==
  IF pairs = <<>> THEN { Out(f, TRUE, <<MSG_OVERLAY_OK>>, <<>>, {}) }
  ELSE LET s == pairs[1][1]
           d == pairs[1][2]
       IN { Out(f, FALSE, <<MSG_OVERLAY_FAILED, IoError>>, <<>>, {}) }
          \cup (IF IsFile(f, s) /\ CanWrite(f, d)
                  THEN copy_pairs(WriteFile(f, d, f[s]), Tail(pairs))
                ELSE {})

\* the overlay that leaves out ca.crt
overlay_without_ca(f, source_conf_dir, target_conf_dir) ==
  LET src_key == source_conf_dir \o <<"node.key">>
      src_crt == source_conf_dir \o <<"node.crt">>
  IN IF ~(Exists(f, src_key) /\ Exists(f, src_crt))
       THEN { Out(f, FALSE, <<MSG_OVERLAY_MISSING>>, <<>>, {}) }
     ELSE IF ~CanMakeDirs(f, target_conf_dir)
       THEN { Out(f, FALSE, <<MSG_OVERLAY_FAILED, "FileExistsError">>, <<>>, {}) }
     ELSE copy_pairs(MakeDirs(f, target_conf_dir),
                     << <<src_key, target_conf_dir \o <<"ssl.key">> >>,
                        <<src_crt, target_conf_dir \o <<"ssl.crt">> >> >>)

\* the overlay that makes the target directory before it looks at the sources
overlay_makedirs_first(f, source_conf_dir, target_conf_dir) ==
  LET src_key == source_conf_dir \o <<"node.key">>
      src_crt == source_conf_dir \o <<"node.crt">>
      src_ca  == source_conf_dir \o <<"ca.crt">>
  IN IF ~CanMakeDirs(f, target_conf_dir)
       THEN { Out(f, FALSE, <<MSG_OVERLAY_FAILED, "FileExistsError">>, <<>>, {}) }
     ELSE IF ~(Exists(f, src_key) /\ Exists(f, src_crt) /\ Exists(f, src_ca))
       THEN { Out(MakeDirs(f, target_conf_dir), FALSE, <<MSG_OVERLAY_MISSING>>, <<>>, {}) }
     ELSE copy_pairs(MakeDirs(f, target_conf_dir),
                     << <<src_key, target_conf_dir \o <<"ssl.key">> >>,
                        <<src_crt, target_conf_dir \o <<"ssl.crt">> >>,
                        <<src_ca,  target_conf_dir \o <<"ca.crt">> >> >>)

overlay_lightnode_certificates(f, source_conf_dir, target_conf_dir) ==
  LET src_key == source_conf_dir \o <<"node.key">>
      src_crt == source_conf_dir \o <<"node.crt">>
      src_ca  == source_conf_dir \o <<"ca.crt">>
  IN IF ~(Exists(f, src_key) /\ Exists(f, src_crt) /\ Exists(f, src_ca))
       THEN { Out(f, FALSE, <<MSG_OVERLAY_MISSING>>, <<>>, {}) }
     ELSE IF ~CanMakeDirs(f, target_conf_dir)
       THEN { Out(f, FALSE, <<MSG_OVERLAY_FAILED, "FileExistsError">>, <<>>, {}) }
     ELSE copy_pairs(MakeDirs(f, target_conf_dir),
                     << <<src_key, target_conf_dir \o <<"ssl.key">> >>,
                        <<src_crt, target_conf_dir \o <<"ssl.crt">> >>,
                        <<src_ca,  target_conf_dir \o <<"ca.crt">> >> >>)

\* -------------------------------------------------------------------------
\* cert_utils.copy_ssl_certificates
\* -------------------------------------------------------------------------
MSG_COPY_SSL_MISSING == "certificate files missing: conf/node.key and conf/node.crt expected"
MSG_COPY_SSL_DONE    == "generated for the gateway's certificate names: "
MSG_COPY_SSL_EXIST   == "certificate files exist already, nothing to copy"
MSG_COPY_SSL_FAILED  == "copying ssl.key/ssl.crt failed: "

\* the copies of copy_ssl_certificates in order: a destination that exists
\* is skipped, shutil.copy2 raises on a source that is a directory or on an
\* I/O error and ends the call with the copies made so far; os.chmod is not
\* seen in the tree and its failure is swallowed
RECURSIVE copy_missing(_, _, _)
copy_missing(f, pairs, copied) ==
  IF pairs = <<>>
    THEN { IF copied # <<>>
             THEN Out(f, TRUE, <<MSG_COPY_SSL_DONE>> \o copied, <<>>, {})
           ELSE Out(f, TRUE, <<MSG_COPY_SSL_EXIST>>, <<>>, {}) }
  ELSE LET src == pairs[1][1]
           dst == pairs[1][2]
       IN IF Exists(f, dst)
            THEN copy_missing(f, Tail(pairs), copied)
          ELSE { Out(f, FALSE, <<MSG_COPY_SSL_FAILED, IoError>>, <<>>, {}) }
               \cup (IF IsFile(f, src) /\ CanWrite(f, dst)
                       THEN copy_missing(WriteFile(f, dst, f[src]), Tail(pairs),
                                         Append(copied, Basename(dst)))
                     ELSE {})

\* the copies of a copy_ssl_certificates that does not look at the destination
RECURSIVE copy_always(_, _, _)
copy_always(f, pairs, copied) ==
  IF pairs = <<>>
    THEN { IF copied # <<>>
             THEN Out(f, TRUE, <<MSG_COPY_SSL_DONE>> \o copied, <<>>, {})
           ELSE Out(f, TRUE, <<MSG_COPY_SSL_EXIST>>, <<>>, {}) }
  ELSE LET src == pairs[1][1]
           dst == pairs[1][2]
       IN { Out(f, FALSE, <<MSG_COPY_SSL_FAILED, IoError>>, <<>>, {}) }
          \cup (IF IsFile(f, src) /\ CanWrite(f, dst)
                  THEN copy_always(WriteFile(f, dst, f[src]), Tail(pairs),
                                   Append(copied, Basename(dst)))
                ELSE {})

\* copy_ssl_certificates that overwrites ssl.key and ssl.crt
copy_ssl_certificates_overwriting(f) ==
  IF ~Exists(f, P_node_key) \/ ~Exists(f, P_node_crt)
    THEN { Out(f, FALSE, <<MSG_COPY_SSL_MISSING>>, <<>>, {}) }
  ELSE copy_always(f, << <<P_node_key, P_ssl_key>>, <<P_node_crt, P_ssl_crt>> >>, <<>>)

copy_ssl_certificates(f) ==
  IF ~Exists(f, P_node_key) \/ ~Exists(f, P_node_crt)
    THEN { Out(f, FALSE, <<MSG_COPY_SSL_MISSING>>, <<>>, {}) }
  ELSE copy_missing(f, << <<P_node_key, P_ssl_key>>, <<P_node_crt, P_ssl_crt>> >>, <<>>)

\* -------------------------------------------------------------------------
\* Stage 7: download_genesis, download_nodes_json
\* -------------------------------------------------------------------------
EV_GET_GENESIS == "GET /lightnode/genesis"
EV_GET_NODES   == "GET /lightnode/nodes"
C_GENESIS == "genesis of the chain"
C_NODES   == "node list of the chain"
MSG_GENESIS_NET  == "fetching config.genesis failed: "
MSG_GENESIS_SAVE == "saving config.genesis failed: "
MSG_GENESIS_OK   == "config.genesis saved"
MSG_NODES_NET    == "fetching nodes.json failed: "
MSG_NODES_SAVE   == "saving nodes.json failed: "
MSG_NODES_FORMAT == "node list format error: List[str] or {nodes: List[str]} expected"
MSG_NODES_OK     == "nodes.json saved"

download_genesis(f, output_dir) ==
  LET genesis_path == output_dir \o <<"config.genesis">> IN
  { Out(f, FALSE, <<MSG_GENESIS_NET, e>>, <<EV_GET_GENESIS>>, {}) : e \in NetErrors }
  \cup (IF CanWrite(f, genesis_path)
          THEN { Out(WriteFile(f, genesis_path, C_GENESIS), TRUE, <<MSG_GENESIS_OK>>,
                     <<EV_GET_GENESIS>>, {}) }
        ELSE { Out(f, FALSE, <<MSG_GENESIS_SAVE, "OSError">>, <<EV_GET_GENESIS>>, {}) })

\* what the node-list request answers
NodesAnswers == { "list of str", "dict with nodes", "other json" }

download_nodes_json(f, output_dir) ==
  LET nodes_path == output_dir \o <<"nodes.json">> IN
  IF ~CanMakeDirs(f, output_dir)
    THEN { Out(f, FALSE, <<MSG_NODES_SAVE, "FileExistsError">>, <<>>, {}) }
  ELSE LET f1 == MakeDirs(f, output_dir) IN
    { Out(f1, FALSE, <<MSG_NODES_NET, e>>, <<EV_GET_NODES>>, {}) : e \in NetErrors }
    \cup { IF a = "other json"
             THEN Out(f1, FALSE, <<MSG_NODES_FORMAT>>, <<EV_GET_NODES>>, {})
           ELSE IF CanWrite(f1, nodes_path)
             THEN Out(WriteFile(f1, nodes_path, C_NODES), TRUE, <<MSG_NODES_OK>>,
                      <<EV_GET_NODES>>, {})
           ELSE Out(f1, FALSE, <<MSG_NODES_SAVE, "IsADirectoryError">>, <<EV_GET_NODES>>, {}) :
           a \in NodesAnswers }

\* a step that requests the node list whatever became of the genesis
chain_assets_step_downloading_both(f) ==
  LET ln_dir == P_lightnode IN
  UNION { { IF ~r1.ok THEN [r1 EXCEPT !.ev = r1.ev \o r2.ev, !.fs = r2.fs]
            ELSE IF ~r2.ok THEN [r2 EXCEPT !.ev = r1.ev \o r2.ev]
            ELSE Out(r2.fs, TRUE, r1.msg \o <<"; ">> \o r2.msg, r1.ev \o r2.ev, {}) :
            r2 \in download_nodes_json(r1.fs, ln_dir) } :
          r1 \in download_genesis(f, ln_dir) }

\* chain_assets_step of execute_deployment
chain_assets_step(f) ==
  LET ln_dir == P_lightnode IN
  UNION { IF ~r1.ok THEN { r1 }
          ELSE { IF ~r2.ok THEN [r2 EXCEPT !.ev = r1.ev \o r2.ev]
                 ELSE Out(r2.fs, TRUE, r1.msg \o <<"; ">> \o r2.msg, r1.ev \o r2.ev, {}) :
                 r2 \in download_nodes_json(r1.fs, ln_dir) } :
          r1 \in download_genesis(f, ln_dir) }

\* -------------------------------------------------------------------------
\* Stage 8: start_lightnode_step
\* -------------------------------------------------------------------------
EV_START == "bash start.sh"
MSG_START_NO_SCRIPT == "start script does not exist: lightnode/start.sh"
MSG_START_EXIT      == "start script failed, exit code: "
MSG_START_NO_PID    == "cannot parse a pid from the output of the start script"
MSG_START_OK        == "light node started, PID: "
MSG_START_TIMEOUT   == "start script timed out"
MSG_START_EXCEPTION == "start exception: "

Whitespace == { " ", "\n", "\t" }
DigitChars == { "0", "1", "2", "3", "4", "5", "6", "7", "8", "9" }
DigitValue(c) ==
  CASE c = "0" -> 0 [] c = "1" -> 1 [] c = "2" -> 2 [] c = "3" -> 3 [] c = "4" -> 4
    [] c = "5" -> 5 [] c = "6" -> 6 [] c = "7" -> 7 [] c = "8" -> 8 [] c = "9" -> 9
DigitChar(d) ==
  CASE d = 0 -> "0" [] d = 1 -> "1" [] d = 2 -> "2" [] d = 3 -> "3" [] d = 4 -> "4"
    [] d = 5 -> "5" [] d = 6 -> "6" [] d = 7 -> "7" [] d = 8 -> "8" [] d = 9 -> "9"

\* str.strip()
Strip(s) ==
  LET keep == { i \in 1..Len(s) : s[i] \notin Whitespace } IN
  IF keep = {} THEN <<>>
  ELSE SubSeq(s, CHOOSE i \in keep : \A j \in keep : i <= j,
                 CHOOSE i \in keep : \A j \in keep : i >= j)

\* the first position from j on whose character is not of class cls
RunEnd(s, j, cls) ==
  CHOOSE k \in j..(Len(s) + 1) :
    /\ \A m \in j..(k - 1) : s[m] \in cls
    /\ (k = Len(s) + 1 \/ s[k] \notin cls)

\* re.search(r"pid[=\s]+(\d+)", s): group 1 of the leftmost match, <<>> when
\* there is none
\* with seps the characters of the class between "pid" and the digits
MatchesAt(s, i, seps) ==
  /\ i + 2 <= Len(s)
  /\ SubSeq(s, i, i + 2) = <<"p", "i", "d">>
  /\ LET a == RunEnd(s, i + 3, seps) IN
       a > i + 3 /\ RunEnd(s, a, DigitChars) > a
regex_search(s, seps) ==
  LET hits == { i \in 1..Len(s) : MatchesAt(s, i, seps) } IN
  IF hits = {} THEN <<>>
  ELSE LET i == CHOOSE h \in hits : \A g \in hits : h <= g
           a == RunEnd(s, i + 3, seps)
       IN SubSeq(s, a, RunEnd(s, a, DigitChars) - 1)
\* the pattern with "=" only between "pid" and the digits
pid_match_equals_only(s) == regex_search(s, { "=" })
pid_match(s) == regex_search(s, Whitespace \cup { "=" })

\* int(digits) and str(n)
RECURSIVE ParseInt(_)
ParseInt(ds) ==
  IF ds = <<>> THEN 0
  ELSE 10 * ParseInt(SubSeq(ds, 1, Len(ds) - 1)) + DigitValue(ds[Len(ds)])
RECURSIVE ToStr(_)
ToStr(n) ==
  IF n < 10 THEN <<DigitChar(n)>> ELSE ToStr(n \div 10) \o <<DigitChar(n % 10)>>

\* what start.sh may print on stdout
OUT_launched == <<"l", "a", "u", "n", "c", "h", "e", "d", " ", "p", "i", "d", "=", "4", "8", "2", "1", "\n">>
OUT_nothing  == <<>>
OUT_started  == <<"s", "t", "a", "r", "t", "e", "d", "\n">>
OUT_pid_is   == <<"p", "i", "d", " ", "i", "s", " ", "1", "2">>
OUT_second   == <<"p", "i", "d", "=", " ", "x", " ", "p", "i", "d", " ", "3", "5">>
OUT_padded   == <<" ", "p", "i", "d", "\n", "0", "0", "7", " ", "p", "i", "d", "=", "9", "\n">>
StartOutputs ==
  { OUT_launched, OUT_nothing, OUT_started, OUT_pid_is, OUT_second, OUT_padded }

\* how subprocess.run of start.sh ends: an empty script exits 0 and prints
\* nothing, any other script may time out, fail or print anything
StartRuns(content) ==
  IF content = C_EMPTY
    THEN { [end |-> "exit", returncode |-> 0, stdout |-> OUT_nothing] }
  ELSE { [end |-> "timeout", returncode |-> 0, stdout |-> OUT_nothing],
         [end |-> "exception", returncode |-> 0, stdout |-> OUT_nothing] }
       \cup { [end |-> "exit", returncode |-> rc, stdout |-> o] :
                rc \in { 0, 1 }, o \in StartOutputs }

\* the pid_callback given to the coordinator: none, one that records the
\* pid, or one that raises
PidCallbacks == { "None", "records", "raises" }

\* a step result with the pids handed to pid_callback and the run of start.sh
NotRun == [end |-> "not run", returncode |-> 0, stdout |-> <<>>]
OutPid(f, ok, msg, ev, pids, run) ==
  [fs |-> f, ok |-> ok, msg |-> msg, ev |-> ev, note |-> {}, pids |-> pids, run |-> run]

\* the call of pid_callback without its own try/except: an exception of the
\* callback reaches the except clause of the step
call_pid_callback_unguarded(cb, pid) ==
  [pids |-> IF cb = "None" THEN <<>> ELSE <<pid>>, raised |-> cb = "raises"]

\* the call of pid_callback when there is one: the pids it was called with,
\* and whether an exception got out of the call
call_pid_callback(cb, pid) ==
  [pids |-> IF cb = "None" THEN <<>> ELSE <<pid>>, raised |-> FALSE]

\* the start that does not insist on a pid, as LightnodeBuilder.start
start_lightnode_result_lenient(f, cb, run) ==
  IF run.end = "timeout" THEN OutPid(f, FALSE, <<MSG_START_TIMEOUT>>, <<EV_START>>, <<>>, run)
  ELSE IF run.end = "exception"
    THEN OutPid(f, FALSE, <<MSG_START_EXCEPTION, IoError>>, <<EV_START>>, <<>>, run)
  ELSE IF run.returncode # 0
    THEN OutPid(f, FALSE, <<MSG_START_EXIT>> \o ToStr(run.returncode), <<EV_START>>, <<>>, run)
  ELSE LET digits == pid_match(Strip(run.stdout)) IN
    IF digits = <<>> THEN OutPid(f, TRUE, <<MSG_START_OK>>, <<EV_START>>, <<>>, run)
    ELSE OutPid(f, TRUE, <<MSG_START_OK>> \o ToStr(ParseInt(digits)), <<EV_START>>,
                IF cb = "None" THEN <<>> ELSE <<ParseInt(digits)>>, run)

start_lightnode_result(f, cb, run) ==
  IF run.end = "timeout" THEN OutPid(f, FALSE, <<MSG_START_TIMEOUT>>, <<EV_START>>, <<>>, run)
  ELSE IF run.end = "exception"
    THEN OutPid(f, FALSE, <<MSG_START_EXCEPTION, IoError>>, <<EV_START>>, <<>>, run)
  ELSE IF run.returncode # 0
    THEN OutPid(f, FALSE, <<MSG_START_EXIT>> \o ToStr(run.returncode), <<EV_START>>, <<>>, run)
  ELSE LET digits == pid_match(Strip(run.stdout)) IN
    IF digits = <<>> THEN OutPid(f, FALSE, <<MSG_START_NO_PID>>, <<EV_START>>, <<>>, run)
    ELSE LET pid == ParseInt(digits)
             c   == call_pid_callback(cb, pid)
         IN IF c.raised
              THEN OutPid(f, FALSE, <<MSG_START_EXCEPTION, "callback error">>, <<EV_START>>,
                          c.pids, run)
            ELSE OutPid(f, TRUE, <<MSG_START_OK>> \o ToStr(pid), <<EV_START>>, c.pids, run)

start_lightnode_step(f, cb) ==
  LET script == P_lightnode \o <<"start.sh">> IN
  IF ~Exists(f, script)
    THEN { OutPid(f, FALSE, <<MSG_START_NO_SCRIPT>>, <<>>, <<>>, NotRun) }
  ELSE { start_lightnode_result(f, cb, run) : run \in StartRuns(f[script]) }

\* -------------------------------------------------------------------------
\* Stage 9: console_deploy_step
\* -------------------------------------------------------------------------
EV_CONSOLE == "deploy_console"
MSG_CONSOLE_PROGRESS == "deploying the console..."
MSG_CONSOLE_OK       == "console deployed"
MSG_CONSOLE_FAILED   == "console deployment failed: "

\* service/paths.py: the node directory of the server, src/server/node, and
\* a directory that is not it
NODE_DIR  == <<"src", "server", "node">>
OTHER_DIR == <<"tmp", "deploy">>
get_node_dir == NODE_DIR

\* get_build_chain_layout_paths()["sdk_dir"]; it has no parameter
get_build_chain_layout_paths == get_node_dir \o <<"lightnode", "sdk">>

\* what sdk_dir of deploy_console is on disk: an entry of the tree of
\* output_dir when output_dir is the node directory of the server, else an
\* entry of another tree
sdk_dir_entry(f, dir, elsewhere) ==
  IF dir = get_node_dir THEN f[P_lightnode \o <<"sdk">>] ELSE elsewhere

\* deploy_console returns, or raises a RuntimeError with one of these texts
ConsoleErrors ==
  { "console directory does not exist", "node sdk directory does not exist",
    "copying the sdk files failed", "reissuing the console sdk certificate failed" }
deploy_console(f, dir, elsewhere) ==
  LET entry == sdk_dir_entry(f, dir, elsewhere)
  IN  { [raised |-> TRUE, text |-> "console directory does not exist", read |-> <<>>] }
      \cup
      ( IF entry = ABSENT
          THEN { [raised |-> TRUE, text |-> "node sdk directory does not exist",
                  read |-> get_build_chain_layout_paths] }
        ELSE IF entry # DIR
          THEN { [raised |-> TRUE, text |-> "copying the sdk files failed",
                  read |-> get_build_chain_layout_paths] }
        ELSE { [raised |-> FALSE, text |-> "", read |-> get_build_chain_layout_paths],
               [raised |-> TRUE, text |-> "reissuing the console sdk certificate failed",
                read |-> get_build_chain_layout_paths] } )

\* a step outcome with the directory the sdk files were looked for in
OutRead(f, ok, msg, ev, note, read) ==
  [fs |-> f, ok |-> ok, msg |-> msg, ev |-> ev, note |-> note, read |-> read]

\* the step without its try/except
console_deploy_step_uncaught(f, dir, elsewhere) ==
  { IF d.raised THEN OutRead(f, FALSE, <<d.text>>, <<EV_CONSOLE>>, { N_RAISED }, d.read)
    ELSE OutRead(f, TRUE, <<MSG_CONSOLE_OK>>, <<EV_CONSOLE>>, {}, d.read)
    : d \in deploy_console(f, dir, elsewhere) }

console_deploy_step(f, dir, elsewhere) ==
  { IF d.raised THEN OutRead(f, FALSE, <<MSG_CONSOLE_FAILED, d.text>>, <<EV_CONSOLE>>, {}, d.read)
    ELSE OutRead(f, TRUE, <<MSG_CONSOLE_OK>>, <<EV_CONSOLE>>, {}, d.read)
    : d \in deploy_console(f, dir, elsewhere) }

\* -------------------------------------------------------------------------
\* DeployCoordinator.execute_deployment
\* -------------------------------------------------------------------------
VARIABLES
  fs,            \* the file tree of output_dir
  undeletable,   \* the paths whose entries the file system refuses to delete
  fs_before,     \* the tree before the last operation
  fs_start,      \* the tree when execute_deployment was called
  platform,      \* sys.platform
  pid_callback,  \* the pid_callback given to the coordinator
  clients,       \* whether CertificateClient / AssetClient were imported
  pc,            \* 0: not called, k in 1..9: about to run stage k, 10: returned
  invoked,       \* the stages invoked so far, in order
  steps,         \* the StepResults of the stages run so far, in order
  trace,         \* external requests and subprocesses so far, in order
  progress,      \* the messages given to progress_callback, in order
  result,        \* what execute_deployment returned
  pid_calls,     \* the pids given to pid_callback, in order
  last_op,       \* name and StepResult of the last operation
  start_run,     \* how the run of start.sh in stage 8 ended
  direct,        \* number of direct calls of a worker function so far
  runlog,        \* what the calls of _run_step did so far, in order
  \* the console bridge (service/terminal_ws.py), one session
  child,         \* the console process: "none", "alive" or "exited"
  child_out,     \* the chunks the process wrote that were not read yet
  produced,      \* number of chunks the process wrote so far
  init_done,     \* the flag init_done of console_websocket
  fwd_pc,        \* position of the task forward_output
  fwd_end,       \* what ended the loop of forward_output, "running" before
  main_pc,       \* position of the handler console_websocket
  ws_app,        \* the websocket as the application sees it
  ws_client,     \* whether the remote end is still connected
  inbox,         \* messages of the remote end not yet received
  typed,         \* number of text messages the remote end sent so far
  reads,         \* results of child.read_nonblocking so far, in order
  ws_sent,       \* texts sent to the websocket so far, with the sending task
  received,      \* texts websocket.receive_text returned so far, in order
  child_in,      \* texts written to the process so far, with the writing task
  closes,        \* number of calls of websocket.close that took effect
  timeouts,      \* number of consecutive read timeouts, saturating
  \* the API server (main.py): the AppState and the requests to /api/deploy
  node_pid,          \* state.node_pid: << >> for None, <<n>> for the pid n
  deployed_node_id,  \* state.deployed_node_id, "None" for None
  session_file,      \* last_session.json in the working directory
  nodeid_in_dir,     \* lines of lightnode/conf/node.nodeid under state.current_node_dir
  nodeid_in_cwd,     \* lines of node/lightnode/conf/node.nodeid under the working directory
  req,               \* what became of each request to /api/deploy
  empty_at_start,    \* whether the directory was empty when the request's task began
  last_call,         \* the last handler or AppState method that ran, with its answer
  stop_run,          \* how the run of stop.sh in the last /api/stop ended
  \* the directories of the server
  output_dir,        \* the output_dir given to execute_deployment
  node_dir_sdk,      \* lightnode/sdk under get_node_dir() when that is not output_dir
  sdk_read,          \* the directory deploy_console took the sdk files from
  build_run,         \* how the run of build_chain.sh in run_build ended
  \* the log stream (main.py): the queue of the AppState and one observer
  log_queue,         \* state.log_queue: the messages pushed and not yet taken
  pushed,            \* number of messages the deployment task pushed so far
  getter,            \* the future of log_queue.get(): "none", "waiting" or "woken"
  obs_pc,            \* position of log_generator for the observer
  delivered          \* the messages the observer received so far, in order

bridge_vars == <<child, child_out, produced, init_done, fwd_pc, fwd_end, main_pc, ws_app, ws_client,
                 inbox, typed, reads, ws_sent, received, child_in, closes, timeouts>>

api_vars == <<node_pid, deployed_node_id, session_file, nodeid_in_dir, nodeid_in_cwd, req,
              empty_at_start, last_call, stop_run>>

place_vars == <<output_dir, node_dir_sdk, sdk_read>>

log_vars == <<log_queue, pushed, getter, obs_pc, delivered>>

vars == <<fs, undeletable, fs_before, fs_start, platform, pid_callback, clients, pc, invoked,
          steps, trace, progress, result, pid_calls, last_op, start_run, direct, runlog,
          bridge_vars, api_vars, place_vars, build_run, log_vars>>

NOT_CALLED == 0
RETURNED   == 10
LAST_STAGE == 9

StepName(k) ==
  CASE k = 1 -> "[1/9] requesting and downloading the certificate..."
    [] k = 2 -> "[2/9] downloading build_chain.sh..."
    [] k = 3 -> "[3/9] downloading the binaries..."
    [] k = 4 -> "[4/9] building the light node with the script..."
    [] k = 5 -> "[5/9] adjusting the directory structure..."
    [] k = 6 -> "[6/9] overlaying the light node certificates..."
    [] k = 7 -> "[7/9] overlaying config.genesis and nodes.json..."
    [] k = 8 -> "[8/9] starting the light node..."
    [] k = 9 -> "[9/9] deploying the console..."

FailPrefix(k) ==
  CASE k = 1 -> "certificate deployment failed"
    [] k = 2 -> "script download failed"
    [] k = 3 -> "binary download failed"
    [] k = 4 -> "build failed"
    [] k = 5 -> "directory adjustment failed"
    [] k = 6 -> "certificate overlay failed"
    [] k = 7 -> "chain configuration download failed"
    [] k = 8 -> "starting the light node failed"

OpName(k) ==
  CASE k = 1 -> "issue_new_certificate"
    [] k = 2 -> "download_build_script"
    [] k = 3 -> "download_binaries"
    [] k = 4 -> "run_build"
    [] k = 5 -> "promote_and_cleanup"
    [] k = 6 -> "overlay_lightnode_certificates"
    [] k = 7 -> "chain_assets_step"
    [] k = 8 -> "start_lightnode_step"
    [] k = 9 -> "console_deploy_step"

MSG_NO_CLIENTS == "error: client modules (cert_client.py or asset_client.py) not found"
MSG_DEPLOY_OK  == "one-click deployment finished successfully"

NoResult == [returned |-> FALSE, raised |-> FALSE, ok |-> FALSE, msg |-> <<>>]
Returns(ok, msg) == [returned |-> TRUE, raised |-> FALSE, ok |-> ok, msg |-> msg]
\* execute_deployment ended by an exception
Raises(msg) == [returned |-> TRUE, raised |-> TRUE, ok |-> FALSE, msg |-> msg]

\* the certificate overlay left out of the sequence
next_stage_skipping(k) == IF k = 5 THEN 7 ELSE k + 1

\* the stage that follows stage k
next_stage(k) == k + 1

\* the check of success forgotten after stage 7
returns_after_unchecked(k, ok) == k = LAST_STAGE \/ (~ok /\ k # 7)

\* whether execute_deployment returns after stage k ended with success flag
\* ok: every stage but the last is checked with  if not success: return
returns_after(k, ok) == k = LAST_STAGE \/ ~ok

\* the value it then returns
return_value(k, ok, msg) ==
  IF k = LAST_STAGE THEN Returns(TRUE, <<MSG_DEPLOY_OK>>)
  ELSE Returns(FALSE, <<FailPrefix(k), ": ">> \o msg)

\* an entry of runlog: _run_step reported its step name, called the step
\* function, or returned
Reported(k, name) == [kind |-> "progress", stage |-> k, ok |-> TRUE, text |-> <<name>>]
Called(k)         == [kind |-> "call", stage |-> k, ok |-> TRUE, text |-> <<>>]
Returned(k, ok, msg) == [kind |-> "return", stage |-> k, ok |-> ok, text |-> msg]

\* a step runner that calls the step function again after a failure
run_step_retrying(k, step_name, o) ==
  [ log |-> << Reported(k, step_name), Called(k) >>
            \o (IF o.ok THEN <<>> ELSE << Called(k) >>)
            \o (IF N_RAISED \in o.note THEN <<>> ELSE << Returned(k, o.ok, o.msg) >>),
    ok |-> o.ok, msg |-> o.msg ]

\* self._run_step(step_name, step_func) of stage k, where o is what the one
\* call of step_func does: the name is reported, then step_func is called,
\* and its result is returned as it is; an exception of step_func escapes
run_step(k, step_name, o) ==
  [ log |-> << Reported(k, step_name), Called(k) >>
            \o (IF N_RAISED \in o.note THEN <<>> ELSE << Returned(k, o.ok, o.msg) >>),
    ok |-> o.ok, msg |-> o.msg ]

\* the messages of log that went to progress_callback
RECURSIVE reported_in(_)
reported_in(log) ==
  IF log = <<>> THEN <<>>
  ELSE (IF log[1].kind = "progress" THEN << log[1].text >> ELSE <<>>) \o reported_in(Tail(log))

\* a coordinator that reports a warning for every failing stage
progress_of_warning_always(k, ok, msg) ==
  (IF k = LAST_STAGE THEN << <<MSG_CONSOLE_PROGRESS>> >> ELSE <<>>)
  \o (IF ok THEN << <<"[SUCCESS] ">> \o msg >> ELSE << <<"[WARN] ">> \o msg >>)

\* the progress messages of stage k besides the step name: the step
\* function of stage 9 reports once, then the coordinator reports the
\* outcome unless it returns a failure
progress_of(k, ok, msg) ==
  (IF k = LAST_STAGE THEN << <<MSG_CONSOLE_PROGRESS>> >> ELSE <<>>)
  \o (IF ok THEN << <<"[SUCCESS] ">> \o msg >>
      ELSE IF k = LAST_STAGE THEN << <<"[WARN] ">> \o msg >>
      ELSE <<>>)

\* a coordinator that puts the tree back as it was at the call when a stage
\* fails
run_stage_rolling_back(k, o) ==
  LET r == run_step(k, StepName(k), o)
  IN
  /\ pc = k
  /\ invoked' = Append(invoked, k)
  /\ steps' = Append(steps, [stage |-> k, ok |-> o.ok, msg |-> o.msg, note |-> o.note])
  /\ trace' = trace \o o.ev
  /\ fs' = IF N_RAISED \notin o.note /\ returns_after(k, r.ok) /\ ~r.ok THEN fs_start ELSE o.fs
  /\ fs_before' = fs
  /\ last_op' = [op |-> OpName(k), ok |-> o.ok, msg |-> o.msg, note |-> o.note]
  /\ runlog' = runlog \o r.log
  /\ IF N_RAISED \in o.note
       THEN /\ progress' = progress \o reported_in(r.log)
            /\ pc' = RETURNED
            /\ result' = Raises(o.msg)
     ELSE /\ progress' = progress \o reported_in(r.log) \o progress_of(k, r.ok, r.msg)
          /\ IF returns_after(k, r.ok)
               THEN pc' = RETURNED /\ result' = return_value(k, r.ok, r.msg)
             ELSE pc' = next_stage(k) /\ UNCHANGED result
  /\ UNCHANGED <<undeletable, fs_start, platform, pid_callback, clients, direct, bridge_vars, api_vars,
                 output_dir, node_dir_sdk, log_vars>>

\* one stage of the pipeline: self._run_step(name, step) and what follows
\* it; an exception that escapes the step function escapes _run_step and
\* execute_deployment
run_stage(k, o) ==
  LET r == run_step(k, StepName(k), o)
  IN
  /\ pc = k
  /\ invoked' = Append(invoked, k)
  /\ steps' = Append(steps, [stage |-> k, ok |-> o.ok, msg |-> o.msg, note |-> o.note])
  /\ trace' = trace \o o.ev
  /\ fs' = o.fs
  /\ fs_before' = fs
  /\ last_op' = [op |-> OpName(k), ok |-> o.ok, msg |-> o.msg, note |-> o.note]
  /\ runlog' = runlog \o r.log
  /\ IF N_RAISED \in o.note
       THEN /\ progress' = progress \o reported_in(r.log)
            /\ pc' = RETURNED
            /\ result' = Raises(o.msg)
     ELSE /\ progress' = progress \o reported_in(r.log) \o progress_of(k, r.ok, r.msg)
          /\ IF returns_after(k, r.ok)
               THEN pc' = RETURNED /\ result' = return_value(k, r.ok, r.msg)
             ELSE pc' = next_stage(k) /\ UNCHANGED result
  /\ UNCHANGED <<undeletable, fs_start, platform, pid_callback, clients, direct, bridge_vars, api_vars,
                 output_dir, node_dir_sdk, log_vars>>

\* a test of the imports that looks at the certificate client only
clients_available_cert_only(c) == c.cert

\* neither CertificateClient nor AssetClient is None
clients_available(c) == c.cert /\ c.asset

\* the call of execute_deployment, up to the first stage
Begin ==
  /\ pc = NOT_CALLED
  /\ fs_start' = fs
  /\ IF clients_available(clients)
       THEN pc' = 1 /\ UNCHANGED result
     ELSE pc' = RETURNED /\ result' = Returns(FALSE, <<MSG_NO_CLIENTS>>)
  /\ UNCHANGED <<fs, undeletable, fs_before, platform, pid_callback, clients, invoked, steps,
                 trace, progress, pid_calls, last_op, start_run, direct, runlog, bridge_vars, api_vars, place_vars, build_run, log_vars>>

cert_step ==
  \E o \in issue_new_certificate(fs) : run_stage(1, o) /\ UNCHANGED <<pid_calls, start_run, sdk_read, build_run>>

script_step ==
  \E o \in download_build_script(fs) : run_stage(2, o) /\ UNCHANGED <<pid_calls, start_run, sdk_read, build_run>>

binaries_step ==
  \E o \in download_binaries(platform, fs) : run_stage(3, o) /\ UNCHANGED <<pid_calls, start_run, sdk_read, build_run>>

build_step ==
  \E o \in run_build(fs) :
    run_stage(4, o) /\ build_run' = o.run /\ UNCHANGED <<pid_calls, start_run, sdk_read>>

promote_step ==
  \E o \in promote_and_cleanup(fs, undeletable) : run_stage(5, o) /\ UNCHANGED <<pid_calls, start_run, sdk_read, build_run>>

overlay_step ==
  \E o \in overlay_lightnode_certificates(fs, P_conf, P_lightnode \o <<"conf">>) :
    run_stage(6, o) /\ UNCHANGED <<pid_calls, start_run, sdk_read, build_run>>

chain_assets ==
  \E o \in chain_assets_step(fs) : run_stage(7, o) /\ UNCHANGED <<pid_calls, start_run, sdk_read, build_run>>

start_lightnode ==
  \E o \in start_lightnode_step(fs, pid_callback) :
    run_stage(8, o) /\ pid_calls' = pid_calls \o o.pids /\ start_run' = o.run
                    /\ UNCHANGED <<sdk_read, build_run>>

console_deploy ==
  \E o \in console_deploy_step(fs, output_dir, node_dir_sdk) :
    run_stage(9, o) /\ sdk_read' = o.read /\ UNCHANGED <<pid_calls, start_run, build_run>>

\* LightnodeBuilder.promote_and_cleanup(output_dir) called on its own
CallPromoteAndCleanup ==
  /\ pc = NOT_CALLED
  /\ direct < MaxDirectCalls
  /\ \E o \in promote_and_cleanup(fs, undeletable) :
       /\ fs' = o.fs
       /\ last_op' = [op |-> OpName(5), ok |-> o.ok, msg |-> o.msg, note |-> o.note]
  /\ fs_before' = fs
  /\ direct' = direct + 1
  /\ UNCHANGED <<undeletable, fs_start, platform, pid_callback, clients, pc, invoked, steps,
                 trace, progress, result, pid_calls, start_run, runlog, bridge_vars, api_vars, place_vars, build_run, log_vars>>

\* overlay_lightnode_certificates(output_dir/conf, output_dir/lightnode/conf)
\* called on its own
CallOverlay ==
  /\ pc = NOT_CALLED
  /\ direct < MaxDirectCalls
  /\ \E o \in overlay_lightnode_certificates(fs, P_conf, P_lightnode \o <<"conf">>) :
       /\ fs' = o.fs
       /\ last_op' = [op |-> OpName(6), ok |-> o.ok, msg |-> o.msg, note |-> o.note]
  /\ fs_before' = fs
  /\ direct' = direct + 1
  /\ UNCHANGED <<undeletable, fs_start, platform, pid_callback, clients, pc, invoked, steps,
                 trace, progress, result, pid_calls, start_run, runlog, bridge_vars, api_vars, place_vars, build_run, log_vars>>

\* copy_ssl_certificates(output_dir) called on its own
CallCopySslCertificates ==
  /\ pc = NOT_CALLED
  /\ direct < MaxDirectCalls
  /\ \E o \in copy_ssl_certificates(fs) :
       /\ fs' = o.fs
       /\ last_op' = [op |-> "copy_ssl_certificates", ok |-> o.ok, msg |-> o.msg, note |-> o.note]
  /\ fs_before' = fs
  /\ direct' = direct + 1
  /\ UNCHANGED <<undeletable, fs_start, platform, pid_callback, clients, pc, invoked, steps,
                 trace, progress, result, pid_calls, start_run, runlog, bridge_vars, api_vars, place_vars, build_run, log_vars>>

\* LightnodeBuilder.run_build(output_dir) called on its own
CallRunBuild ==
  /\ pc = NOT_CALLED
  /\ direct < MaxDirectCalls
  /\ \E o \in run_build(fs) :
       /\ fs' = o.fs
       /\ trace' = trace \o o.ev
       /\ build_run' = o.run
       /\ last_op' = [op |-> OpName(4), ok |-> o.ok, msg |-> o.msg, note |-> o.note]
  /\ fs_before' = fs
  /\ direct' = direct + 1
  /\ UNCHANGED <<undeletable, fs_start, platform, pid_callback, clients, pc, invoked, steps,
                 progress, result, pid_calls, start_run, runlog, bridge_vars, api_vars, place_vars, log_vars>>

\* -------------------------------------------------------------------------
\* service/terminal_ws.py: console_websocket, the bridge between a websocket
\* and the console process
\* -------------------------------------------------------------------------

\* the prompt of the console that shows it is ready
READY_PROMPT ==
  << "[", "g", "r", "o", "u", "p", "0", "]", ":", " ", "/", "a", "p", "p", "s", ">" >>
\* the command sent once the prompt was seen
SAMPLE_COMMAND == "getBlockNumber\n"

ERR_PEXPECT   == "[ERROR] pexpect is required on server: "
ERR_OUTPUT    == "\r\n[ERROR] "
ERR_WEBSOCKET == "\r\n[ERROR] WebSocket error: "

\* what a read of the process output can give: the prompt after some text,
\* the two parts of a prompt cut in two (text without prompt each), and
\* nothing (an incomplete character)
CHUNK_prompt      == << "\n" >> \o READY_PROMPT
CHUNK_prompt_head == SubSeq(READY_PROMPT, 1, 10)
CHUNK_prompt_tail == SubSeq(READY_PROMPT, 11, Len(READY_PROMPT))
CHUNK_empty       == << >>
Chunks == { CHUNK_prompt, CHUNK_prompt_head, CHUNK_prompt_tail, CHUNK_empty }

\* the i-th text message the remote end sends
TypedText(i) ==
  CASE i = 1 -> "getBlockNumber\n"
    [] i = 2 -> "quit\n"
    [] OTHER -> "help\n"

\* Python's  m in s  on strings
Contains(s, m) == \E i \in 1..(Len(s) - Len(m) + 1) : SubSeq(s, i, i + Len(m) - 1) = m

\* the websocket: the state the application sees, the remote end, the
\* messages waiting for receive_text, the texts send_text took, and the
\* number of close calls that took effect
TheChannel ==
  [app |-> ws_app, client |-> ws_client, inbox |-> inbox, sent |-> ws_sent, closes |-> closes]
SetChannel(c) ==
  /\ ws_app' = c.app
  /\ ws_client' = c.client
  /\ inbox' = c.inbox
  /\ ws_sent' = c.sent
  /\ closes' = c.closes

DISCONNECT == [type |-> "disconnect", data |-> ""]
TextMessage(t) == [type |-> "text", data |-> t]

\* await websocket.send_text(text) by a task: it raises once the application
\* closed the websocket; towards a remote end that is gone it raises or the
\* text is taken and dropped, depending on the server; else the text goes
\* out
send_text(c, by, text) ==
  { [ch |-> [c EXCEPT !.sent = Append(@, [by |-> by, text |-> text])], raised |-> FALSE] :
      x \in IF c.app = "connected" THEN { 1 } ELSE {} }
  \cup { [ch |-> c, raised |-> TRUE] :
           x \in IF c.app # "connected" \/ c.client # "connected" THEN { 1 } ELSE {} }

\* try: await websocket.close() except Exception: pass -- the first call
\* closes the websocket and the remote end answers with its disconnect, a
\* later call raises and is ignored
close_quietly(c) ==
  IF c.app # "connected" THEN c
  ELSE [c EXCEPT !.app = "disconnected",
                 !.closes = @ + 1,
                 !.client = "disconnected",
                 !.inbox = IF c.client = "connected" THEN Append(@, DISCONNECT) ELSE @]

\* try: await websocket.send_text(text) except Exception: pass
send_quietly(c, by, text) == { r.ch : r \in send_text(c, by, text) }

\* child.send(data) by a task: written to the process; to a process that
\* has exited it raises or the text is written to nobody
child_send(by, data) ==
  { [child_in |-> Append(child_in, [by |-> by, data |-> data]), raised |-> FALSE] }
  \cup (IF child = "alive" THEN {} ELSE { [child_in |-> child_in, raised |-> TRUE] })

\* a loop that takes a read timeout for the end of the stream
after_read_exception_timeout_ends(e) ==
  CASE e = "TIMEOUT" -> "break"
    [] e = "EOF" -> "break"
    [] OTHER -> "notify and break"

\* a loop that notifies the remote end of the end of the stream
after_read_exception_eof_notified(e) ==
  CASE e = "TIMEOUT" -> "sleep and continue"
    [] OTHER -> "notify and break"

\* the except clause of the loop of forward_output
after_read_exception(e) ==
  CASE e = "TIMEOUT" -> "sleep and continue"
    [] e = "EOF" -> "break"
    [] OTHER -> "notify and break"

\* a bridge that forwards empty reads too
forwardable_always(output) == TRUE

\* if output:
forwardable(output) == output # << >>

\* a bridge that sends the command whenever it sees the prompt
ready_prompt_seen_always(done, output) == Contains(output, READY_PROMPT)

\* a bridge that sends the command on the first output it reads
ready_prompt_seen_on_any_output(done, output) == ~done /\ output # << >>

\* if not init_done and "[group0]: /apps>" in output:
ready_prompt_seen(done, output) == ~done /\ Contains(output, READY_PROMPT)

\* the end of forward_output: the loop is left and the websocket closed
EndForwarding(c, how) ==
  /\ SetChannel(close_quietly(c))
  /\ fwd_pc' = "ended"
  /\ fwd_end' = how

\* the loop of forward_output goes on
ContinueForwarding(c, at) ==
  /\ SetChannel(c)
  /\ fwd_pc' = at
  /\ UNCHANGED fwd_end

\* a loop that notifies the remote end of an error and goes on reading
OnReadException_keeps_reading(c, e) ==
  LET todo == after_read_exception(e)
  IN IF todo = "sleep and continue" THEN ContinueForwarding(c, "sleep")
     ELSE IF todo = "break" THEN EndForwarding(c, e)
     ELSE \E d \in send_quietly(c, "forward_output", << ERR_OUTPUT, e >>) :
            ContinueForwarding(d, "while")

\* an exception e in the try block of the loop
OnReadException(c, e) ==
  LET todo == after_read_exception(e)
  IN IF todo = "sleep and continue" THEN ContinueForwarding(c, "sleep")
     ELSE IF todo = "break" THEN EndForwarding(c, e)
     ELSE \E d \in send_quietly(c, "forward_output", << ERR_OUTPUT, e >>) :
            EndForwarding(d, e)

deploy_vars == <<fs, undeletable, fs_before, fs_start, platform, pid_callback, clients, pc,
                 invoked, steps, trace, progress, result, pid_calls, last_op, start_run,
                 direct, runlog>>

\* the except clause of console_websocket: the error is sent if it can be,
\* the websocket closed if it is not, and the handler returns
HandlerExcept(c, e) ==
  /\ \E d \in send_quietly(c, "console_websocket", << ERR_WEBSOCKET, e >>) :
       SetChannel(close_quietly(d))
  /\ main_pc' = "done"

\* the websocket is accepted and the console spawned, up to the creation of
\* the task forward_output; pexpect may be missing and the spawn may fail
Accept ==
  /\ main_pc = "not called"
  /\ LET c == [TheChannel EXCEPT !.app = "connected"]
     IN \/ /\ \E d \in send_quietly(c, "console_websocket", << ERR_PEXPECT, "ImportError" >>) :
                SetChannel(close_quietly(d))
           /\ main_pc' = "done"
           /\ UNCHANGED <<child, fwd_pc>>
        \/ /\ HandlerExcept(c, "spawn failed")
           /\ UNCHANGED <<child, fwd_pc>>
        \/ /\ SetChannel(c)
           /\ child' = "alive"
           /\ fwd_pc' = "while"
           /\ main_pc' = "receive"
  /\ UNCHANGED <<child_out, produced, init_done, fwd_end, typed, reads, received, child_in,
                 timeouts, deploy_vars, api_vars, place_vars, build_run, log_vars>>

\* while child.isalive():
ForwardWhile ==
  /\ fwd_pc = "while"
  /\ IF child = "alive"
       THEN ContinueForwarding(TheChannel, "read")
     ELSE EndForwarding(TheChannel, "not alive")
  /\ UNCHANGED <<child, child_out, produced, init_done, main_pc, typed, reads, received,
                 child_in, timeouts, deploy_vars, api_vars, place_vars, build_run, log_vars>>

\* one pass of the try block: the read, the forwarding of the output and the
\* detection of the prompt, or the exception the read ends with
ForwardRead ==
  /\ fwd_pc = "read"
  /\ IF child_out = << >>
       THEN /\ OnReadException(TheChannel, IF child = "alive" THEN "TIMEOUT" ELSE "EOF")
            /\ timeouts' = IF child = "alive" /\ timeouts < MaxTimeouts
                             THEN timeouts + 1 ELSE timeouts
            /\ UNCHANGED <<child_out, reads, init_done, child_in>>
     ELSE LET output == Head(child_out)
          IN /\ child_out' = Tail(child_out)
             /\ timeouts' = 0
             /\ \/ \* the bytes read cannot be decoded
                   /\ OnReadException(TheChannel, "UnicodeDecodeError")
                   /\ UNCHANGED <<reads, init_done, child_in>>
                \/ /\ reads' = Append(reads, output)
                   /\ \E s \in (IF forwardable(output)
                                  THEN send_text(TheChannel, "forward_output", output)
                                ELSE { [ch |-> TheChannel, raised |-> FALSE] }) :
                        IF s.raised
                          THEN /\ OnReadException(s.ch, "send_text failed")
                               /\ UNCHANGED <<init_done, child_in>>
                        ELSE IF ready_prompt_seen(init_done, output)
                          THEN /\ init_done' = TRUE
                               /\ \E w \in child_send("forward_output", SAMPLE_COMMAND) :
                                    /\ child_in' = w.child_in
                                    /\ IF w.raised
                                         THEN OnReadException(s.ch, "OSError")
                                       ELSE ContinueForwarding(s.ch, "while")
                        ELSE /\ ContinueForwarding(s.ch, "while")
                             /\ UNCHANGED <<init_done, child_in>>
  /\ UNCHANGED <<child, produced, main_pc, typed, received, deploy_vars, api_vars, place_vars, build_run, log_vars>>

\* await asyncio.sleep(0.01); continue
ForwardSleep ==
  /\ fwd_pc = "sleep"
  /\ fwd_pc' = "while"
  /\ UNCHANGED <<child, child_out, produced, init_done, fwd_end, main_pc, ws_app, ws_client,
                 inbox, typed, reads, ws_sent, received, child_in, closes, timeouts,
                 deploy_vars, api_vars, place_vars, build_run, log_vars>>

\* data = await websocket.receive_text(); child.send(data) -- receive_text
\* raises when the message is the disconnect of the remote end
Receive ==
  /\ main_pc = "receive"
  /\ inbox # << >>
  /\ LET m == Head(inbox)
         c == [TheChannel EXCEPT !.inbox = Tail(inbox)]
     IN IF m.type = "disconnect"
          THEN /\ HandlerExcept(c, "WebSocketDisconnect")
               /\ UNCHANGED <<received, child_in>>
        ELSE /\ received' = Append(received, m.data)
             /\ \E w \in child_send("console_websocket", m.data) :
                  /\ child_in' = w.child_in
                  /\ IF w.raised
                       THEN HandlerExcept(c, "OSError")
                     ELSE SetChannel(c) /\ UNCHANGED main_pc
  /\ UNCHANGED <<child, child_out, produced, init_done, fwd_pc, fwd_end, typed, reads,
                 timeouts, deploy_vars, api_vars, place_vars, build_run, log_vars>>

\* the console process writes a chunk of output
ChildWrites ==
  /\ child = "alive"
  /\ produced < MaxChunks
  /\ \E c \in Chunks : child_out' = Append(child_out, c)
  /\ produced' = produced + 1
  /\ UNCHANGED <<child, init_done, fwd_pc, fwd_end, main_pc, ws_app, ws_client, inbox, typed,
                 reads, ws_sent, received, child_in, closes, timeouts, deploy_vars, api_vars, place_vars, build_run, log_vars>>

\* the console process exits
ChildExits ==
  /\ child = "alive"
  /\ child' = "exited"
  /\ UNCHANGED <<child_out, produced, init_done, fwd_pc, fwd_end, main_pc, ws_app, ws_client,
                 inbox, typed, reads, ws_sent, received, child_in, closes, timeouts,
                 deploy_vars, api_vars, place_vars, build_run, log_vars>>

\* the remote end sends a text message
RemoteTypes ==
  /\ ws_app = "connected"
  /\ ws_client = "connected"
  /\ typed < MaxTyped
  /\ inbox' = Append(inbox, TextMessage(TypedText(typed + 1)))
  /\ typed' = typed + 1
  /\ UNCHANGED <<child, child_out, produced, init_done, fwd_pc, fwd_end, main_pc, ws_app,
                 ws_client, reads, ws_sent, received, child_in, closes, timeouts, deploy_vars, api_vars, place_vars, build_run, log_vars>>

\* the remote end closes the websocket
RemoteCloses ==
  /\ ws_app = "connected"
  /\ ws_client = "connected"
  /\ ws_client' = "disconnected"
  /\ inbox' = Append(inbox, DISCONNECT)
  /\ UNCHANGED <<child, child_out, produced, init_done, fwd_pc, fwd_end, main_pc, ws_app,
                 typed, reads, ws_sent, received, child_in, closes, timeouts, deploy_vars, api_vars, place_vars, build_run, log_vars>>

\* -------------------------------------------------------------------------
\* main.py: the AppState, the handlers of the API and the deployment task
\* -------------------------------------------------------------------------

\* Optional[int] None
NoPid == << >>

\* last_session.json: missing, a JSON object, or text json.load rejects
NoFile == [kind |-> "absent", deployed_node_id |-> "None", node_pid |-> NoPid]
JsonFile(id, pid) == [kind |-> "json", deployed_node_id |-> id, node_pid |-> pid]
GarbageFile == [kind |-> "not json", deployed_node_id |-> "None", node_pid |-> NoPid]

\* a node.nodeid file: its lines, each with its line end if it has one
NoNodeId == [exists |-> FALSE, lines |-> << >>]
NodeIdFile(lines) == [exists |-> TRUE, lines |-> lines]

\* f.readline()
readline(lines) == IF lines = << >> THEN "" ELSE lines[1]

\* AppState.load_last_session on the state st = [deployed_node_id, node_pid]
load_last_session(st, file) ==
  IF file.kind = "absent" THEN st
  ELSE IF file.kind = "not json" THEN st
  ELSE [deployed_node_id |-> file.deployed_node_id, node_pid |-> file.node_pid]

\* AppState.save_session: the session files it may leave; node.nodeid is
\* read below the working directory, a missing one or a failing write is
\* printed as a warning; the state itself is not assigned
save_session(st, cwd_nodeid, file) ==
  IF ~cwd_nodeid.exists THEN { file }
  ELSE { JsonFile(readline(cwd_nodeid.lines), st.node_pid), file }

\* is_pid_alive(pid), probe being whether os.kill(pid, 0) returns
is_pid_alive(pid, probe) == pid # NoPid /\ probe

\* the answer of a handler or the outcome of a method
Reply(name, status, success, text, running) ==
  [name |-> name, status |-> status, success |-> success, text |-> text, running |-> running]
NoCall == Reply(<<"none">>, 0, FALSE, "", FALSE)

TheState == [deployed_node_id |-> deployed_node_id, node_pid |-> node_pid]

\* the routes main.py declares
Routes ==
  { <<"GET", "/api/logs/stream">>, <<"POST", "/api/deploy">>, <<"POST", "/api/start">>,
    <<"POST", "/api/stop">>, <<"GET", "/api/status">>, <<"GET", "/api/session">> }

\* the status of the answer to a request: a declared route answers, a
\* declared path with another method is refused, any other path goes to the
\* static files mounted at "/" when dist exists, else is not found
route_status(method, path, mounted) ==
  IF <<method, path>> \in Routes THEN 200
  ELSE IF \E r \in Routes : r[2] = path THEN 405
  ELSE IF mounted /\ method \notin { "GET", "HEAD" } THEN 405
  ELSE 404

\* the requests a client makes for the check and the overwrite of the directory
DirectoryRequests ==
  { <<"GET", "/api/deploy/check_dir">>, <<"POST", "/api/deploy/overwrite">> }

MSG_API_NOT_EMPTY       == "deployment failed: the target directory is not empty"
MSG_API_DEPLOY_STARTED  == "the deployment task has started"
MSG_API_RUNNING         == "the node is already running"
MSG_API_NO_START_SCRIPT == "start script does not exist"
MSG_API_START_EXIT      == "start script failed"
MSG_API_START_NO_PID    == "cannot parse a pid from the output of the start script"
MSG_API_STARTING        == "the node is starting"
MSG_API_START_TIMEOUT   == "start script timed out"
MSG_API_START_FAILED    == "starting the node failed"

\* os.path.exists(output_dir) and os.listdir(output_dir)
occupied(f) == \E p \in Paths : Len(p) = 1 /\ f[p] # ABSENT

\* AppState.load_last_session()
LoadLastSession ==
  /\ direct < MaxDirectCalls
  /\ LET st == load_last_session(TheState, session_file)
     IN /\ deployed_node_id' = st.deployed_node_id
        /\ node_pid' = st.node_pid
  /\ last_call' = Reply(<<"call", "load_last_session">>, 0, session_file.kind = "json", "", FALSE)
  /\ direct' = direct + 1
  /\ UNCHANGED <<session_file, nodeid_in_dir, nodeid_in_cwd, req, empty_at_start, stop_run>>
  /\ UNCHANGED <<fs, undeletable, fs_before, fs_start, platform, pid_callback, clients, pc,
                 invoked, steps, trace, progress, result, pid_calls, last_op, start_run,
                 runlog, bridge_vars, place_vars, build_run, log_vars>>

\* AppState.save_session()
SaveSession ==
  /\ direct < MaxDirectCalls
  /\ session_file' \in save_session(TheState, nodeid_in_cwd, session_file)
  /\ last_call' = Reply(<<"call", "save_session">>, 0, session_file' # session_file, "", FALSE)
  /\ direct' = direct + 1
  /\ UNCHANGED <<node_pid, deployed_node_id, nodeid_in_dir, nodeid_in_cwd, req, empty_at_start, stop_run>>
  /\ UNCHANGED <<fs, undeletable, fs_before, fs_start, platform, pid_callback, clients, pc,
                 invoked, steps, trace, progress, result, pid_calls, last_op, start_run,
                 runlog, bridge_vars, place_vars, build_run, log_vars>>

\* GET /api/status
GetStatus ==
  /\ direct < MaxDirectCalls
  /\ \E probe \in BOOLEAN :
       LET is_running == is_pid_alive(node_pid, probe)
       IN /\ last_call' = Reply(<<"GET", "/api/status">>, 200, TRUE, deployed_node_id, is_running)
          /\ IF ~is_running /\ node_pid # NoPid
               THEN /\ node_pid' = NoPid
                    /\ session_file' \in
                         save_session([TheState EXCEPT !.node_pid = NoPid], nodeid_in_cwd,
                                      session_file)
             ELSE UNCHANGED <<node_pid, session_file>>
  /\ direct' = direct + 1
  /\ UNCHANGED <<deployed_node_id, nodeid_in_dir, nodeid_in_cwd, req, empty_at_start, stop_run>>
  /\ UNCHANGED <<fs, undeletable, fs_before, fs_start, platform, pid_callback, clients, pc,
                 invoked, steps, trace, progress, result, pid_calls, last_op, start_run,
                 runlog, bridge_vars, place_vars, build_run, log_vars>>

\* what start_node makes of the run of start.sh: whether it succeeded, its
\* message and the pid it parsed
start_node_result(run) ==
  IF run.end = "timeout" THEN [success |-> FALSE, text |-> MSG_API_START_TIMEOUT, pid |-> NoPid]
  ELSE IF run.end = "exception"
    THEN [success |-> FALSE, text |-> MSG_API_START_FAILED, pid |-> NoPid]
  ELSE IF run.returncode # 0
    THEN [success |-> FALSE, text |-> MSG_API_START_EXIT, pid |-> NoPid]
  ELSE LET digits == pid_match(run.stdout) IN
    IF digits = << >> THEN [success |-> FALSE, text |-> MSG_API_START_NO_PID, pid |-> NoPid]
    ELSE [success |-> TRUE, text |-> MSG_API_STARTING, pid |-> << ParseInt(digits) >>]

\* POST /api/start
StartNode ==
  /\ direct < MaxDirectCalls
  /\ LET script == P_lightnode \o <<"start.sh">>
         name   == <<"POST", "/api/start">>
     IN \E probe \in BOOLEAN :
          IF is_pid_alive(node_pid, probe)
            THEN /\ last_call' = Reply(name, 200, FALSE, MSG_API_RUNNING, TRUE)
                 /\ start_run' = NotRun
                 /\ UNCHANGED <<node_pid, session_file, trace>>
          ELSE IF ~Exists(fs, script)
            THEN /\ last_call' = Reply(name, 200, FALSE, MSG_API_NO_START_SCRIPT, FALSE)
                 /\ start_run' = NotRun
                 /\ UNCHANGED <<node_pid, session_file, trace>>
          ELSE \E run \in StartRuns(fs[script]) :
                 LET r == start_node_result(run)
                 IN /\ last_call' = Reply(name, 200, r.success, r.text, FALSE)
                    /\ trace' = Append(trace, EV_START)
                    /\ start_run' = run
                    /\ IF r.success
                         THEN /\ node_pid' = r.pid
                              /\ session_file' \in
                                   save_session([TheState EXCEPT !.node_pid = r.pid],
                                                nodeid_in_cwd, session_file)
                       ELSE UNCHANGED <<node_pid, session_file>>
  /\ direct' = direct + 1
  /\ UNCHANGED <<deployed_node_id, nodeid_in_dir, nodeid_in_cwd, req, empty_at_start, stop_run>>
  /\ UNCHANGED <<fs, undeletable, fs_before, fs_start, platform, pid_callback, clients, pc,
                 invoked, steps, progress, result, pid_calls, last_op,
                 runlog, bridge_vars, place_vars, build_run, log_vars>>

EV_STOP == "bash stop.sh"
MSG_API_NOT_RUNNING    == "the node is not running"
MSG_API_NO_STOP_SCRIPT == "stop script does not exist"
MSG_API_STOPPED        == "the node has stopped"
MSG_API_STOP_TIMEOUT   == "stop script timed out"
MSG_API_STOP_FAILED    == "stopping the node failed"

\* how subprocess.run of stop.sh ends
StopRuns ==
  { [end |-> "timeout", returncode |-> 0, stdout |-> OUT_nothing],
    [end |-> "exception", returncode |-> 0, stdout |-> OUT_nothing] }
  \cup { [end |-> "exit", returncode |-> rc, stdout |-> OUT_nothing] : rc \in { 0, 1 } }

\* a stop_node that keeps the pid when stop.sh exits non-zero
stop_node_result_strict(run) ==
  IF run.end = "timeout" THEN [success |-> FALSE, text |-> MSG_API_STOP_TIMEOUT, clear |-> FALSE]
  ELSE IF run.end = "exception"
    THEN [success |-> FALSE, text |-> MSG_API_STOP_FAILED, clear |-> FALSE]
  ELSE IF run.returncode # 0
    THEN [success |-> FALSE, text |-> MSG_API_STOP_FAILED, clear |-> FALSE]
  ELSE [success |-> TRUE, text |-> MSG_API_STOPPED, clear |-> TRUE]

\* what stop_node makes of the run of stop.sh: whether it succeeded, its
\* message and whether the tracked pid is cleared
stop_node_result(run) ==
  IF run.end = "timeout" THEN [success |-> FALSE, text |-> MSG_API_STOP_TIMEOUT, clear |-> FALSE]
  ELSE IF run.end = "exception"
    THEN [success |-> FALSE, text |-> MSG_API_STOP_FAILED, clear |-> FALSE]
  ELSE [success |-> TRUE, text |-> MSG_API_STOPPED, clear |-> TRUE]

\* POST /api/stop
StopNode ==
  /\ direct < MaxDirectCalls
  /\ LET script == P_lightnode \o <<"stop.sh">>
         name   == <<"POST", "/api/stop">>
     IN \E probe \in BOOLEAN :
          IF ~is_pid_alive(node_pid, probe)
            THEN /\ last_call' = Reply(name, 200, FALSE, MSG_API_NOT_RUNNING, FALSE)
                 /\ node_pid' = NoPid
                 /\ session_file' \in
                      save_session([TheState EXCEPT !.node_pid = NoPid], nodeid_in_cwd,
                                   session_file)
                 /\ stop_run' = NotRun
                 /\ UNCHANGED trace
          ELSE IF ~Exists(fs, script)
            THEN /\ last_call' = Reply(name, 200, FALSE, MSG_API_NO_STOP_SCRIPT, TRUE)
                 /\ stop_run' = NotRun
                 /\ UNCHANGED <<node_pid, session_file, trace>>
          ELSE \E run \in StopRuns :
                 LET r == stop_node_result(run)
                 IN /\ last_call' = Reply(name, 200, r.success, r.text, TRUE)
                    /\ trace' = Append(trace, EV_STOP)
                    /\ stop_run' = run
                    /\ IF r.clear
                         THEN /\ node_pid' = NoPid
                              /\ session_file' \in
                                   save_session([TheState EXCEPT !.node_pid = NoPid],
                                                nodeid_in_cwd, session_file)
                       ELSE UNCHANGED <<node_pid, session_file>>
  /\ direct' = direct + 1
  /\ UNCHANGED <<deployed_node_id, nodeid_in_dir, nodeid_in_cwd, req, empty_at_start>>
  /\ UNCHANGED <<fs, undeletable, fs_before, fs_start, platform, pid_callback, clients, pc,
                 invoked, steps, progress, result, pid_calls, last_op, start_run,
                 runlog, bridge_vars, place_vars, build_run, log_vars>>

\* a request for the check or the overwrite of the directory
RequestDirectory ==
  /\ direct < MaxDirectCalls
  /\ \E rq \in DirectoryRequests, mounted \in BOOLEAN :
       LET status == route_status(rq[1], rq[2], mounted)
       IN last_call' = Reply(rq, status, FALSE, "", FALSE)
  /\ direct' = direct + 1
  /\ UNCHANGED <<node_pid, deployed_node_id, session_file, nodeid_in_dir, nodeid_in_cwd, req,
                 empty_at_start, stop_run>>
  /\ UNCHANGED <<fs, undeletable, fs_before, fs_start, platform, pid_callback, clients, pc,
                 invoked, steps, trace, progress, result, pid_calls, last_op, start_run,
                 runlog, bridge_vars, place_vars, build_run, log_vars>>

\* the clients that each post one request to /api/deploy
Requests == { "first", "second" }

\* POST /api/deploy by the client r: the test of the directory and the
\* scheduling of the background task, with no await in between
DeployRequest(r) ==
  /\ req[r] = "none"
  /\ IF occupied(fs)
       THEN /\ req' = [req EXCEPT ![r] = "refused"]
            /\ last_call' = Reply(<<"POST", "/api/deploy">>, 200, FALSE, MSG_API_NOT_EMPTY, FALSE)
     ELSE /\ req' = [req EXCEPT ![r] = "scheduled"]
          /\ last_call' = Reply(<<"POST", "/api/deploy">>, 200, TRUE, MSG_API_DEPLOY_STARTED, FALSE)
  /\ UNCHANGED <<node_pid, deployed_node_id, session_file, nodeid_in_dir, nodeid_in_cwd,
                 empty_at_start, stop_run>>
  /\ UNCHANGED <<deploy_vars, bridge_vars, place_vars, build_run, log_vars>>

\* run_deployment_task of the request r, from its start to the first stage of
\* execute_deployment: a new id, a new coordinator without pid_callback; the
\* tasks are followed one after the other
TaskStart(r) ==
  /\ req[r] = "scheduled"
  /\ \A q \in Requests : req[q] # "running"
  /\ req' = [req EXCEPT ![r] = "running"]
  /\ empty_at_start' = [empty_at_start EXCEPT ![r] = IF occupied(fs) THEN "not empty" ELSE "empty"]
  /\ deployed_node_id' = "temporary id"
  /\ pid_callback' = "None"
  /\ fs_start' = fs
  /\ fs_before' = fs
  /\ invoked' = << >>
  /\ steps' = << >>
  /\ trace' = << >>
  /\ progress' = << >>
  /\ runlog' = << >>
  /\ pid_calls' = << >>
  /\ start_run' = NotRun
  /\ last_op' = [op |-> "none", ok |-> FALSE, msg |-> <<>>, note |-> {}]
  /\ IF clients_available(clients)
       THEN pc' = 1 /\ result' = NoResult
     ELSE pc' = RETURNED /\ result' = Returns(FALSE, <<MSG_NO_CLIENTS>>)
  /\ UNCHANGED <<node_pid, session_file, nodeid_in_dir, nodeid_in_cwd, last_call, stop_run>>
  /\ UNCHANGED <<fs, undeletable, platform, clients, direct, bridge_vars, place_vars, build_run, log_vars>>

\* run_deployment_task after execute_deployment: the session is saved after
\* a success, an exception is reported
TaskFinish(r) ==
  /\ req[r] = "running"
  /\ pc = RETURNED
  /\ req' = [req EXCEPT ![r] = "finished"]
  /\ IF ~result.raised /\ result.ok
       THEN session_file' \in save_session(TheState, nodeid_in_cwd, session_file)
     ELSE UNCHANGED session_file
  /\ last_call' = Reply(<<"task", "run_deployment_task">>, 0, ~result.raised /\ result.ok, "", FALSE)
  /\ UNCHANGED <<node_pid, deployed_node_id, nodeid_in_dir, nodeid_in_cwd, empty_at_start, stop_run>>
  /\ UNCHANGED <<deploy_vars, bridge_vars, place_vars, build_run, log_vars>>

\* -------------------------------------------------------------------------
\* main.py: the log queue, run_deployment_task pushing to it from a worker
\* thread, and log_generator serving it to an observer on the event loop
\* -------------------------------------------------------------------------

\* the text of the n-th message the deployment task pushes
LogMessage(n) == <<"[DEPLOY] message", n>>

\* Queue.put_nowait of an unbounded asyncio.Queue: the item is appended, and
\* a getter that waits is woken up; there is no QueueFull without a maxsize
put_nowait(q, g, message) ==
  [queue |-> Append(q, message), getter |-> IF g = "waiting" THEN "woken" ELSE g]

\* AppState.push_log_sync called by progress_callback in the worker thread
\* that runs run_deployment_task; it takes no lock and can run between any
\* two steps of the event loop
PushLogSync ==
  /\ pushed < MaxPushed
  /\ LET r == put_nowait(log_queue, getter, LogMessage(pushed + 1))
     IN log_queue' = r.queue /\ getter' = r.getter
  /\ pushed' = pushed + 1
  /\ UNCHANGED <<obs_pc, delivered>>
  /\ UNCHANGED <<deploy_vars, bridge_vars, api_vars, place_vars, build_run>>

\* GET /api/logs/stream: log_generator starts for the observer
ObserverConnects ==
  /\ obs_pc = <<"not connected">>
  /\ obs_pc' = <<"is_disconnected">>
  /\ UNCHANGED <<log_queue, pushed, getter, delivered>>
  /\ UNCHANGED <<deploy_vars, bridge_vars, api_vars, place_vars, build_run>>

\* log_generator, line 125: the observer is connected, the loop goes on
LogCheck ==
  /\ obs_pc = <<"is_disconnected">>
  /\ obs_pc' = <<"get">>
  /\ UNCHANGED <<log_queue, pushed, getter, delivered>>
  /\ UNCHANGED <<deploy_vars, bridge_vars, api_vars, place_vars, build_run>>

\* Queue.get, the test  while self.empty()  : an item is taken at once, or a
\* future is about to be created
LogGetTest ==
  /\ obs_pc = <<"get">>
  /\ IF log_queue # << >>
       THEN /\ obs_pc' = <<"yield", Head(log_queue)>>
            /\ log_queue' = Tail(log_queue)
     ELSE /\ obs_pc' = <<"append getter">>
          /\ UNCHANGED log_queue
  /\ UNCHANGED <<pushed, getter, delivered>>
  /\ UNCHANGED <<deploy_vars, bridge_vars, api_vars, place_vars, build_run>>

\* Queue.get, the future is appended to the getters and awaited
LogGetAwait ==
  /\ obs_pc = <<"append getter">>
  /\ getter' = "waiting"
  /\ obs_pc' = <<"await getter">>
  /\ UNCHANGED <<log_queue, pushed, delivered>>
  /\ UNCHANGED <<deploy_vars, bridge_vars, api_vars, place_vars, build_run>>

\* Queue.get resumes when the future was given a result, and tests again
LogGetResume ==
  /\ obs_pc = <<"await getter">>
  /\ getter = "woken"
  /\ getter' = "none"
  /\ obs_pc' = <<"get">>
  /\ UNCHANGED <<log_queue, pushed, delivered>>
  /\ UNCHANGED <<deploy_vars, bridge_vars, api_vars, place_vars, build_run>>

\* log_generator, line 128: the message is sent to the observer
LogYield ==
  /\ obs_pc[1] = "yield"
  /\ delivered' = Append(delivered, obs_pc[2])
  /\ obs_pc' = <<"sleep">>
  /\ UNCHANGED <<log_queue, pushed, getter>>
  /\ UNCHANGED <<deploy_vars, bridge_vars, api_vars, place_vars, build_run>>

\* log_generator, line 129: asyncio.sleep(0.01) ends
LogSleep ==
  /\ obs_pc = <<"sleep">>
  /\ obs_pc' = <<"is_disconnected">>
  /\ UNCHANGED <<log_queue, pushed, getter, delivered>>
  /\ UNCHANGED <<deploy_vars, bridge_vars, api_vars, place_vars, build_run>>

\* -------------------------------------------------------------------------
\* Initial states
\* -------------------------------------------------------------------------

\* what an earlier deployment left: certificates and a promoted light node
OldTree ==
  [p \in { P_conf, P_node_key, P_node_crt, P_ca_crt, P_lightnode,
           P_lightnode \o <<"start.sh">>, P_lightnode \o <<"conf">>,
           P_lightnode \o <<"conf", "ssl.key">>, P_lightnode \o <<"sdk">>,
           P_lightnode \o <<"sdk", "sdk.crt">> }
     |-> IF p \in { P_conf, P_lightnode, P_lightnode \o <<"conf">>, P_lightnode \o <<"sdk">> }
           THEN DIR ELSE "old content"]

\* the output directories a deployment is started in: an empty one, and one
\* holding an earlier deployment
DeployTrees == { EmptyTree, Apply(EmptyTree, OldTree) }

\* the output directories promote_and_cleanup is called on directly: an empty
\* one; one holding an earlier deployment; ones a build was run in (light
\* node at nodes/lightnode or one level deeper, with or without an earlier
\* light node, the sdk next to the light node or inside it); nodes without
\* light node; lightnode being a regular file
PromoteTrees ==
  { EmptyTree,
    Apply(EmptyTree, OldTree),
    Apply(EmptyTree, Merge(NodesOnly,
                           Merge(LightnodeTree(P_nodes \o <<"lightnode">>, C_START, TRUE), SdkTree))),
    Apply(EmptyTree, Merge(OldTree, Merge(NodesOnly,
                           Merge(SdkTree, LightnodeTree(P_host \o <<"lightnode">>, C_START, TRUE))))),
    Apply(EmptyTree, Merge(OldTree, Merge(NodesOnly,
                           LightnodeTree(P_nodes \o <<"lightnode">>, C_EMPTY, FALSE)))),
    Apply(EmptyTree, Merge(OldTree, Merge(NodesOnly,
                           Merge(LightnodeTree(P_nodes \o <<"lightnode">>, C_START, FALSE),
                                 [p \in { P_nodes \o <<"lightnode", "sdk">>,
                                          P_nodes \o <<"lightnode", "sdk", "sdk.crt">> }
                                    |-> IF p = P_nodes \o <<"lightnode", "sdk">>
                                          THEN DIR ELSE C_SDKCRT])))),
    Apply(EmptyTree, HostOnly),
    Apply(EmptyTree, Merge([p \in { P_lightnode } |-> "old content"],
                           Merge(NodesOnly,
                                 LightnodeTree(P_nodes \o <<"lightnode">>, C_EMPTY, FALSE)))) }

ClientImports == [cert : BOOLEAN, asset : BOOLEAN]

\* the entries that may be undeletable: the node's sdk certificate under
\* nodes, a file of the built light node, a file and a directory of an
\* earlier light node
UndeletableCandidates ==
  { P_host \o <<"sdk", "sdk.crt">>, P_nodes \o <<"lightnode", "stop.sh">>,
    P_lightnode \o <<"start.sh">>, P_lightnode \o <<"sdk">> }

InitRest ==
  /\ undeletable \in { k \in SUBSET UndeletableCandidates : Cardinality(k) <= MaxUndeletable }
  /\ fs_before = fs
  /\ fs_start = fs
  /\ pc = NOT_CALLED
  /\ invoked = <<>>
  /\ steps = <<>>
  /\ trace = <<>>
  /\ progress = <<>>
  /\ result = NoResult
  /\ pid_calls = <<>>
  /\ last_op = [op |-> "none", ok |-> FALSE, msg |-> <<>>, note |-> {}]
  /\ start_run = NotRun
  /\ build_run = NoBuildRun
  /\ direct = 0
  /\ runlog = <<>>

\* no websocket was opened on /ws/console
NoSession ==
  /\ child = "none"
  /\ child_out = <<>>
  /\ produced = 0
  /\ init_done = FALSE
  /\ fwd_pc = "not started"
  /\ fwd_end = "running"
  /\ main_pc = "not called"
  /\ ws_app = "connecting"
  /\ ws_client = "connected"
  /\ inbox = <<>>
  /\ typed = 0
  /\ reads = <<>>
  /\ ws_sent = <<>>
  /\ received = <<>>
  /\ child_in = <<>>
  /\ closes = 0
  /\ timeouts = 0

\* the API server has no session and got no request
NoApi ==
  /\ node_pid = NoPid
  /\ deployed_node_id = "None"
  /\ session_file = NoFile
  /\ nodeid_in_dir = NoNodeId
  /\ nodeid_in_cwd = NoNodeId
  /\ req = [r \in Requests |-> "none"]
  /\ empty_at_start = [r \in Requests |-> "n/a"]
  /\ stop_run = NotRun
  /\ last_call = NoCall

\* nothing was pushed and nobody reads /api/logs/stream
NoLogs ==
  /\ log_queue = << >>
  /\ pushed = 0
  /\ getter = "none"
  /\ obs_pc = <<"not connected">>
  /\ delivered = << >>

\* main.py deploys into the node directory of the server
FixedDirectory ==
  /\ output_dir = NODE_DIR
  /\ node_dir_sdk = "n/a"
  /\ sdk_read = << >>

\* a coordinator was constructed, execute_deployment is about to be called
Init ==
  /\ fs \in DeployTrees
  /\ platform \in Platforms
  /\ pid_callback \in PidCallbacks
  /\ clients \in ClientImports
  /\ InitRest
  /\ NoSession
  /\ NoApi
  /\ FixedDirectory
  /\ NoLogs

Next ==
  \/ Begin
  \/ cert_step
  \/ script_step
  \/ binaries_step
  \/ build_step
  \/ promote_step
  \/ overlay_step
  \/ chain_assets
  \/ start_lightnode
  \/ console_deploy

Spec == Init /\ [][Next]_vars

\* promote_and_cleanup is called directly, as its unit test does
InitPromote ==
  /\ fs \in PromoteTrees
  /\ platform = PLATFORM_linux
  /\ pid_callback = "None"
  /\ clients = [cert |-> TRUE, asset |-> TRUE]
  /\ InitRest
  /\ NoSession
  /\ NoApi
  /\ FixedDirectory
  /\ NoLogs

NextPromote == CallPromoteAndCleanup

SpecPromote == InitPromote /\ [][NextPromote]_vars

\* the source certificates present in output_dir/conf: any of the three
CertSourceTrees ==
  { [p \in present \cup { P_conf } |->
       IF p = P_conf THEN DIR
       ELSE IF p = P_node_key THEN C_KEY
       ELSE IF p = P_node_crt THEN C_CRT
       ELSE C_CA] : present \in SUBSET { P_node_key, P_node_crt, P_ca_crt } }

\* the build tools present in output_dir: any of the script and the two
\* executables
ToolTrees ==
  { [p \in present \cup (IF P_bcos \in present THEN { P_bin } ELSE {}) |->
       IF p = P_bin THEN DIR
       ELSE IF p = P_script THEN C_SCRIPT
       ELSE C_BIN] : present \in SUBSET { P_script, P_bcos, P_lightbin } }

\* output_dir/lightnode before the call: absent, a light node holding earlier
\* copies of the three certificates, a regular file
TargetTrees ==
  { [p \in {} |-> ABSENT],
    [p \in { P_lightnode, P_lightnode \o <<"conf">>,
             P_lightnode \o <<"conf", "ssl.key">>, P_lightnode \o <<"conf", "ssl.crt">>,
             P_lightnode \o <<"conf", "ca.crt">> }
       |-> IF p \in { P_lightnode, P_lightnode \o <<"conf">> } THEN DIR ELSE "old content"],
    [p \in { P_lightnode } |-> "old content"] }

\* the output directories the overlay and the build are called on directly
UnitTrees ==
  { Apply(EmptyTree, Merge(certs, Merge(tools, target))) :
      certs \in CertSourceTrees, tools \in ToolTrees, target \in TargetTrees }

\* overlay_lightnode_certificates and run_build are called directly, as
\* their unit tests do
InitUnits ==
  /\ fs \in UnitTrees
  /\ platform = PLATFORM_linux
  /\ pid_callback = "None"
  /\ clients = [cert |-> TRUE, asset |-> TRUE]
  /\ undeletable = {}
  /\ fs_before = fs
  /\ fs_start = fs
  /\ pc = NOT_CALLED
  /\ invoked = <<>>
  /\ steps = <<>>
  /\ trace = <<>>
  /\ progress = <<>>
  /\ result = NoResult
  /\ pid_calls = <<>>
  /\ last_op = [op |-> "none", ok |-> FALSE, msg |-> <<>>, note |-> {}]
  /\ start_run = NotRun
  /\ build_run = NoBuildRun
  /\ direct = 0
  /\ runlog = <<>>
  /\ NoSession
  /\ NoApi
  /\ FixedDirectory
  /\ NoLogs

NextUnits ==
  \/ CallOverlay
  \/ CallRunBuild

SpecUnits == InitUnits /\ [][NextUnits]_vars

\* the session files, node.nodeid files and states the methods of AppState
\* and the handlers are called with
SessionFiles ==
  { NoFile, GarbageFile, JsonFile("old_node_id", << 12345 >>), JsonFile("None", NoPid) }
NodeIdFiles ==
  { NoNodeId, NodeIdFile(<< "real_node_id_abcdef" >>), NodeIdFile(<< "0a1b2c\n", "\n" >>) }

\* an AppState exists; its methods and the handlers other than /api/deploy
\* are called, on an empty node directory or one holding a light node
InitSession ==
  /\ fs \in DeployTrees
  /\ platform = PLATFORM_linux
  /\ pid_callback = "None"
  /\ clients = [cert |-> TRUE, asset |-> TRUE]
  /\ undeletable = {}
  /\ fs_before = fs
  /\ fs_start = fs
  /\ pc = NOT_CALLED
  /\ invoked = <<>>
  /\ steps = <<>>
  /\ trace = <<>>
  /\ progress = <<>>
  /\ result = NoResult
  /\ pid_calls = <<>>
  /\ last_op = [op |-> "none", ok |-> FALSE, msg |-> <<>>, note |-> {}]
  /\ start_run = NotRun
  /\ build_run = NoBuildRun
  /\ direct = 0
  /\ runlog = <<>>
  /\ NoSession
  /\ node_pid = NoPid
  /\ deployed_node_id \in { "None", "temp_id" }
  /\ session_file \in SessionFiles
  /\ nodeid_in_dir \in NodeIdFiles
  /\ nodeid_in_cwd \in NodeIdFiles
  /\ req = [r \in Requests |-> "none"]
  /\ empty_at_start = [r \in Requests |-> "n/a"]
  /\ stop_run = NotRun
  /\ last_call = NoCall
  /\ FixedDirectory
  /\ NoLogs

NextSession ==
  \/ LoadLastSession
  \/ SaveSession
  \/ GetStatus
  \/ StartNode
  \/ RequestDirectory

SpecSession == InitSession /\ [][NextSession]_vars

\* the server runs on an empty node directory; two clients post to
\* /api/deploy and the tasks scheduled run
InitDeployApi ==
  /\ fs = EmptyTree
  /\ platform = PLATFORM_linux
  /\ pid_callback = "None"
  /\ clients = [cert |-> TRUE, asset |-> TRUE]
  /\ undeletable = {}
  /\ fs_before = fs
  /\ fs_start = fs
  /\ pc = NOT_CALLED
  /\ invoked = <<>>
  /\ steps = <<>>
  /\ trace = <<>>
  /\ progress = <<>>
  /\ result = NoResult
  /\ pid_calls = <<>>
  /\ last_op = [op |-> "none", ok |-> FALSE, msg |-> <<>>, note |-> {}]
  /\ start_run = NotRun
  /\ build_run = NoBuildRun
  /\ direct = 0
  /\ runlog = <<>>
  /\ NoSession
  /\ node_pid = NoPid
  /\ deployed_node_id = "None"
  /\ session_file = NoFile
  /\ nodeid_in_dir = NoNodeId
  /\ nodeid_in_cwd \in { NoNodeId, NodeIdFile(<< "real_node_id_abcdef" >>) }
  /\ req = [r \in Requests |-> "none"]
  /\ empty_at_start = [r \in Requests |-> "n/a"]
  /\ stop_run = NotRun
  /\ last_call = NoCall
  /\ FixedDirectory
  /\ NoLogs

NextDeployApi ==
  \/ \E r \in Requests : DeployRequest(r)
  \/ \E r \in Requests : TaskStart(r)
  \/ \E r \in Requests : TaskFinish(r)
  \/ cert_step
  \/ script_step
  \/ binaries_step
  \/ build_step
  \/ promote_step
  \/ overlay_step
  \/ chain_assets
  \/ start_lightnode
  \/ console_deploy

SpecDeployApi == InitDeployApi /\ [][NextDeployApi]_vars

\* the node directories /api/start and /api/stop are called on: an empty one,
\* one holding an earlier deployment without stop.sh, one holding a light
\* node as promoted
PidTrees ==
  { EmptyTree, Apply(EmptyTree, OldTree),
    Apply(EmptyTree, LightnodeTree(P_lightnode, C_START, TRUE)) }

\* the server is up: the AppState was constructed, which restored the pid of
\* the session file if there was one; clients call /api/start, /api/stop and
\* /api/status
InitPid ==
  /\ fs \in PidTrees
  /\ platform = PLATFORM_linux
  /\ pid_callback = "None"
  /\ clients = [cert |-> TRUE, asset |-> TRUE]
  /\ undeletable = {}
  /\ fs_before = fs
  /\ fs_start = fs
  /\ pc = NOT_CALLED
  /\ invoked = <<>>
  /\ steps = <<>>
  /\ trace = <<>>
  /\ progress = <<>>
  /\ result = NoResult
  /\ pid_calls = <<>>
  /\ last_op = [op |-> "none", ok |-> FALSE, msg |-> <<>>, note |-> {}]
  /\ start_run = NotRun
  /\ build_run = NoBuildRun
  /\ NoSession
  /\ direct = 0
  /\ runlog = <<>>
  /\ session_file \in { NoFile, JsonFile("old_node_id", << 12345 >>) }
  /\ LET st == load_last_session([deployed_node_id |-> "None", node_pid |-> NoPid], session_file)
     IN /\ node_pid = st.node_pid
        /\ deployed_node_id = st.deployed_node_id
  /\ nodeid_in_dir = NoNodeId
  /\ nodeid_in_cwd \in { NoNodeId, NodeIdFile(<< "real_node_id_abcdef" >>) }
  /\ req = [r \in Requests |-> "none"]
  /\ empty_at_start = [r \in Requests |-> "n/a"]
  /\ last_call = NoCall
  /\ stop_run = NotRun
  /\ FixedDirectory
  /\ NoLogs

NextPid ==
  \/ StartNode
  \/ StopNode
  \/ GetStatus

SpecPid == InitPid /\ [][NextPid]_vars

\* output_dir/conf before copy_ssl_certificates is called: absent, or a
\* directory where each of node.key, node.crt, ssl.key and ssl.crt is absent,
\* a file or a directory
SslTrees ==
  { [p \in Paths |-> ABSENT] }
  \cup { [p \in Paths |->
            IF p = P_conf THEN DIR
            ELSE IF p = P_node_key THEN k
            ELSE IF p = P_node_crt THEN c
            ELSE IF p = P_ssl_key THEN sk
            ELSE IF p = P_ssl_crt THEN sc
            ELSE ABSENT] :
         k \in { ABSENT, C_KEY, DIR }, c \in { ABSENT, C_CRT, DIR },
         sk \in { ABSENT, "old content", DIR }, sc \in { ABSENT, "old content", DIR } }

\* copy_ssl_certificates is called directly and repeatedly, as its unit test
\* calls it
InitCopySsl ==
  /\ fs \in SslTrees
  /\ platform = PLATFORM_linux
  /\ pid_callback = "None"
  /\ clients = [cert |-> TRUE, asset |-> TRUE]
  /\ undeletable = {}
  /\ fs_before = fs
  /\ fs_start = fs
  /\ pc = NOT_CALLED
  /\ invoked = <<>>
  /\ steps = <<>>
  /\ trace = <<>>
  /\ progress = <<>>
  /\ result = NoResult
  /\ pid_calls = <<>>
  /\ last_op = [op |-> "none", ok |-> FALSE, msg |-> <<>>, note |-> {}]
  /\ start_run = NotRun
  /\ build_run = NoBuildRun
  /\ direct = 0
  /\ runlog = <<>>
  /\ NoSession
  /\ NoApi
  /\ FixedDirectory
  /\ NoLogs

SpecCopySsl == InitCopySsl /\ [][CallCopySslCertificates]_vars

\* the deployment task pushes its messages while an observer connects to
\* /api/logs/stream early, late or never
InitLogs ==
  /\ fs = EmptyTree
  /\ platform = PLATFORM_linux
  /\ pid_callback = "None"
  /\ clients = [cert |-> TRUE, asset |-> TRUE]
  /\ undeletable = {}
  /\ fs_before = fs
  /\ fs_start = fs
  /\ pc = NOT_CALLED
  /\ invoked = <<>>
  /\ steps = <<>>
  /\ trace = <<>>
  /\ progress = <<>>
  /\ result = NoResult
  /\ pid_calls = <<>>
  /\ last_op = [op |-> "none", ok |-> FALSE, msg |-> <<>>, note |-> {}]
  /\ start_run = NotRun
  /\ build_run = NoBuildRun
  /\ direct = 0
  /\ runlog = <<>>
  /\ NoSession
  /\ NoApi
  /\ FixedDirectory
  /\ NoLogs

LogGenerator ==
  \/ LogCheck
  \/ LogGetTest
  \/ LogGetAwait
  \/ LogGetResume
  \/ LogYield
  \/ LogSleep

NextLogs ==
  \/ PushLogSync
  \/ ObserverConnects
  \/ LogCheck
  \/ LogGetTest
  \/ LogGetAwait
  \/ LogGetResume
  \/ LogYield
  \/ LogSleep

SpecLogs == InitLogs /\ [][NextLogs]_vars

\* the event loop runs log_generator whenever it can go on, and the
\* deployment task pushes all its messages
SpecLogsLive ==
  /\ SpecLogs
  /\ WF_vars(LogGenerator)
  /\ WF_vars(PushLogSync)

\* execute_deployment is called with an output_dir of the caller's choice,
\* as the tests of the coordinator do: the node directory of the server or
\* another directory, both empty; in the second case lightnode/sdk under the
\* node directory of the server is missing or left by another deployment
InitAnyDir ==
  /\ fs = EmptyTree
  /\ platform = PLATFORM_linux
  /\ pid_callback \in PidCallbacks
  /\ clients = [cert |-> TRUE, asset |-> TRUE]
  /\ InitRest
  /\ NoSession
  /\ NoApi
  /\ output_dir \in { NODE_DIR, OTHER_DIR }
  /\ node_dir_sdk \in IF output_dir = NODE_DIR THEN { "n/a" } ELSE { ABSENT, DIR }
  /\ sdk_read = << >>
  /\ NoLogs

SpecAnyDir == InitAnyDir /\ [][Next]_vars

\* the output directories run_build and promote_and_cleanup are called on one
\* after the other: the build tools alone; with an earlier deployment; with
\* a regular file at nodes/lightnode left behind
BuildTrees ==
  LET tools == [p \in { P_script, P_bin, P_bcos, P_lightbin } |->
                  IF p = P_bin THEN DIR ELSE IF p = P_script THEN C_SCRIPT ELSE C_BIN]
  IN { Apply(EmptyTree, tools),
       Apply(EmptyTree, Merge(tools, OldTree)),
       Apply(EmptyTree, Merge(tools, Merge(NodesOnly,
                                           [p \in { P_nodes \o <<"lightnode">> } |-> "old content"]))) }

InitBuildPromote ==
  /\ fs \in BuildTrees
  /\ platform = PLATFORM_linux
  /\ pid_callback = "None"
  /\ clients = [cert |-> TRUE, asset |-> TRUE]
  /\ InitRest
  /\ NoSession
  /\ NoApi
  /\ FixedDirectory
  /\ NoLogs

NextBuildPromote ==
  \/ CallRunBuild
  \/ CallPromoteAndCleanup

SpecBuildPromote == InitBuildPromote /\ [][NextBuildPromote]_vars

\* a websocket is about to be opened on /ws/console; no deployment runs
InitBridge ==
  /\ fs = EmptyTree
  /\ platform = PLATFORM_linux
  /\ pid_callback = "None"
  /\ clients = [cert |-> TRUE, asset |-> TRUE]
  /\ undeletable = {}
  /\ fs_before = fs
  /\ fs_start = fs
  /\ pc = NOT_CALLED
  /\ invoked = <<>>
  /\ steps = <<>>
  /\ trace = <<>>
  /\ progress = <<>>
  /\ result = NoResult
  /\ pid_calls = <<>>
  /\ last_op = [op |-> "none", ok |-> FALSE, msg |-> <<>>, note |-> {}]
  /\ start_run = NotRun
  /\ build_run = NoBuildRun
  /\ direct = 0
  /\ runlog = <<>>
  /\ NoSession
  /\ NoApi
  /\ FixedDirectory
  /\ NoLogs

NextBridge ==
  \/ Accept
  \/ ForwardWhile
  \/ ForwardRead
  \/ ForwardSleep
  \/ Receive
  \/ ChildWrites
  \/ ChildExits
  \/ RemoteTypes
  \/ RemoteCloses

SpecBridge == InitBridge /\ [][NextBridge]_vars

\* the event loop runs every task that can run; the console process and the
\* remote end are under no obligation
SpecBridgeLive ==
  /\ SpecBridge
  /\ WF_vars(Accept)
  /\ WF_vars(ForwardWhile)
  /\ WF_vars(ForwardRead)
  /\ WF_vars(ForwardSleep)
  /\ WF_vars(Receive)

\* -------------------------------------------------------------------------
\* Properties
\* -------------------------------------------------------------------------

\* the elements of a sequence
Range(seq) == { seq[i] : i \in 1..Len(seq) }

\* the stage an external request or subprocess belongs to
EventStage(e) ==
  CASE e \in { EV_CHALLENGE, EV_ISSUE } -> 1
    [] e = EV_GET_SCRIPT -> 2
    [] e \in { EV_GET_EXEC("linux"), EV_GET_EXEC("macos"), EV_GET_LINK } -> 3
    [] e = EV_BUILD -> 4
    [] e \in { EV_GET_GENESIS, EV_GET_NODES } -> 7
    [] e = EV_START -> 8
    [] e = EV_CONSOLE -> 9

\* C1: fail-fast.  Whenever a stage k in 1..8 has returned (False, m),
\* execute_deployment has returned (False, prefix of k + ": " + m), stage k is
\* the last stage invoked, and no request or subprocess of a later stage was
\* issued (a failed certificate stage means no download of build_chain.sh).
FailFast ==
  \A i \in 1..Len(steps) :
    (steps[i].stage \in 1..8 /\ ~steps[i].ok) =>
      /\ pc = RETURNED
      /\ result = Returns(FALSE, <<FailPrefix(steps[i].stage), ": ">> \o steps[i].msg)
      /\ \A j \in 1..Len(invoked) : invoked[j] <= steps[i].stage
      /\ \A e \in Range(trace) : EventStage(e) <= steps[i].stage

\* the certificate stage failed with "quota exceeded" and the call returned
FailFastWitness ==
  /\ pc = RETURNED
  /\ Len(steps) = 1
  /\ steps[1] = [stage |-> 1, ok |-> FALSE, msg |-> <<MSG_CERT_NET, "quota exceeded">>,
                 note |-> {}]
  /\ EV_GET_SCRIPT \notin Range(trace)

\* C2: best-effort last stage.  Once stage 9 has run (stages 1..8 all
\* succeeded), execute_deployment has returned (True, success message) and
\* raised nothing, whether deploy_console returned or raised; a console
\* failure shows as the last progress message "[WARN] ..." only.
ConsoleBestEffort ==
  \A i \in 1..Len(steps) :
    steps[i].stage = LAST_STAGE =>
      /\ \A j \in 1..(i - 1) : steps[j].ok
      /\ pc = RETURNED
      /\ result = Returns(TRUE, <<MSG_DEPLOY_OK>>)
      /\ ~steps[i].ok => progress[Len(progress)] = <<"[WARN] ">> \o steps[i].msg

\* deploy_console raised and the deployment returned success
ConsoleBestEffortWitness ==
  /\ Len(steps) = 9
  /\ ~steps[9].ok
  /\ steps[9].msg = <<MSG_CONSOLE_FAILED, "node sdk directory does not exist">>
  /\ result.returned /\ result.ok

\* C3: happy path.  A deployment started in an empty output_dir in which the
\* certificate, the script, the binaries, the genesis and the node list were
\* obtained and the build left a light node with empty start.sh and stop.sh
\* returns success, and lightnode/conf/ssl.key, lightnode/conf/ssl.crt,
\* lightnode/config.genesis and lightnode/nodes.json exist.
HappyPathEmptyScripts ==
  ( /\ pc = RETURNED
    /\ fs_start = EmptyTree
    /\ Len(steps) >= 7
    /\ \A i \in 1..7 : steps[i].ok
    /\ fs[P_lightnode \o <<"start.sh">>] = C_EMPTY
    /\ fs[P_lightnode \o <<"stop.sh">>] = C_EMPTY )
  => /\ result.ok
     /\ IsFile(fs, P_lightnode \o <<"conf", "ssl.key">>)
     /\ IsFile(fs, P_lightnode \o <<"conf", "ssl.crt">>)
     /\ IsFile(fs, P_lightnode \o <<"config.genesis">>)
     /\ IsFile(fs, P_lightnode \o <<"nodes.json">>)

\* C4: stage order.  The stages invoked are 1, 2, 3, ... in this order, each
\* at most once, each running the operation of its number; a stage is invoked
\* only after every stage before it returned success, and the requests and
\* subprocesses were issued in the order of their stages.
StageOrder ==
  /\ Len(invoked) <= LAST_STAGE
  /\ Len(steps) = Len(invoked)
  /\ \A i \in 1..Len(invoked) : invoked[i] = i /\ steps[i].stage = i
  /\ \A i \in 1..(Len(invoked) - 1) : steps[i].ok
  /\ \A i \in 1..(Len(trace) - 1) : EventStage(trace[i]) <= EventStage(trace[i + 1])
  /\ invoked # <<>> => last_op.op = OpName(invoked[Len(invoked)])

\* all nine stages were invoked
StageOrderWitness ==
  /\ invoked = <<1, 2, 3, 4, 5, 6, 7, 8, 9>>
  /\ pc = RETURNED

\* C5 as stated: after every successful promote_and_cleanup output_dir/nodes
\* does not exist and output_dir/lightnode is a directory, also when the
\* removal of nodes met errors.
PromoteRemovesNodesAlways ==
  (last_op.op = "promote_and_cleanup" /\ last_op.ok) =>
    ~Exists(fs, P_nodes) /\ IsDir(fs, P_lightnode)

\* C5 amended: after every successful promote_and_cleanup output_dir/lightnode
\* is a directory, after the move as after the copytree fallback, and
\* output_dir/nodes does not exist unless its removal met errors; then the
\* call still returns success and nodes is left with what could not be deleted.
PromoteRemovesNodes ==
  (last_op.op = "promote_and_cleanup" /\ last_op.ok) =>
    /\ IsDir(fs, P_lightnode)
    /\ (N_MOVED \in last_op.note) # (N_COPIED \in last_op.note)
    /\ N_NODES_ERROR \notin last_op.note => ~Exists(fs, P_nodes)
    /\ N_NODES_ERROR \in last_op.note =>
         /\ IsDir(fs, P_nodes)
         /\ \E q \in undeletable : IsPrefix(P_nodes, q) /\ Exists(fs, q)

\* a promotion through the copytree fallback succeeded and removed nodes
PromoteRemovesNodesWitness ==
  /\ last_op.op = "promote_and_cleanup" /\ last_op.ok
  /\ N_COPIED \in last_op.note
  /\ IsDir(fs_before, P_nodes)
  /\ ~Exists(fs, P_nodes)
  /\ IsFile(fs, P_lightnode \o <<"start.sh">>)

\* a directory named lightnode somewhere under nodes
HasLightnodeDir(f) ==
  \E p \in Under(P_nodes) : p # P_nodes /\ Basename(p) = "lightnode" /\ f[p] = DIR

\* C6: promote_and_cleanup called while output_dir/nodes is absent returns
\* (False, "nodes missing"), raises nothing and leaves the tree, an already
\* promoted lightnode included, as it was; called while nodes holds no
\* directory named lightnode it returns the other failure, "lightnode not
\* found", and leaves the tree as it was.
PromoteFailsCleanly ==
  last_op.op = "promote_and_cleanup" =>
    /\ ~Exists(fs_before, P_nodes) =>
         /\ ~last_op.ok /\ last_op.msg = <<MSG_PROMOTE_NO_NODES>>
         /\ N_RAISED \notin last_op.note
         /\ fs = fs_before
    /\ (IsDir(fs_before, P_nodes) /\ ~HasLightnodeDir(fs_before)) =>
         /\ ~last_op.ok /\ last_op.msg = <<MSG_PROMOTE_NO_LIGHTNODE>>
         /\ N_RAISED \notin last_op.note
         /\ fs = fs_before
    /\ MSG_PROMOTE_NO_NODES # MSG_PROMOTE_NO_LIGHTNODE

\* a second call right after a successful one failed with "nodes missing"
\* and the promoted light node is still there
PromoteFailsCleanlyWitness ==
  /\ direct = 2
  /\ last_op = [op |-> "promote_and_cleanup", ok |-> FALSE,
                msg |-> <<MSG_PROMOTE_NO_NODES>>, note |-> {}]
  /\ IsFile(fs, P_lightnode \o <<"start.sh">>)
  /\ IsFile(fs, P_lightnode \o <<"conf", "ssl.key">>)

\* the certificates received in stage 1 and the files stages 6 and 7 put
\* into the light node
DeployedFiles(f) ==
  /\ IsFile(f, P_node_key) /\ IsFile(f, P_node_crt) /\ IsFile(f, P_ca_crt)
  /\ IsFile(f, P_lightnode \o <<"conf", "ssl.key">>)
  /\ IsFile(f, P_lightnode \o <<"conf", "ssl.crt">>)
  /\ IsFile(f, P_lightnode \o <<"conf", "ca.crt">>)
  /\ IsFile(f, P_lightnode \o <<"config.genesis">>)
  /\ IsFile(f, P_lightnode \o <<"nodes.json">>)

\* C7 as stated: after every successful execute_deployment output_dir/conf
\* holds node.key, node.crt, ca.crt, ssl.key and ssl.crt, output_dir/lightnode
\* holds conf/ssl.key, conf/ssl.crt, conf/ca.crt, config.genesis and
\* nodes.json, and output_dir/nodes does not exist.
LayoutAfterDeployment ==
  (result.returned /\ result.ok) =>
    /\ DeployedFiles(fs)
    /\ IsFile(fs, P_ssl_key) /\ IsFile(fs, P_ssl_crt)
    /\ ~Exists(fs, P_nodes)

\* C7 amended: after every successful execute_deployment output_dir/conf
\* holds node.key, node.crt and ca.crt (no stage writes conf/ssl.key or
\* conf/ssl.crt: they are as they were before the call), output_dir/lightnode
\* holds conf/ssl.key, conf/ssl.crt, conf/ca.crt, config.genesis and
\* nodes.json with the contents of stages 6 and 7, and output_dir/nodes does
\* not exist unless its removal in stage 5 met errors.
LayoutAfterDeploymentAmended ==
  (result.returned /\ result.ok) =>
    /\ DeployedFiles(fs)
    /\ fs[P_lightnode \o <<"conf", "ssl.key">>] = fs[P_node_key]
    /\ fs[P_lightnode \o <<"conf", "ssl.crt">>] = fs[P_node_crt]
    /\ fs[P_lightnode \o <<"conf", "ca.crt">>] = fs[P_ca_crt]
    /\ fs[P_lightnode \o <<"config.genesis">>] = C_GENESIS
    /\ fs[P_lightnode \o <<"nodes.json">>] = C_NODES
    /\ fs[P_ssl_key] = fs_start[P_ssl_key] /\ fs[P_ssl_crt] = fs_start[P_ssl_crt]
    /\ N_NODES_ERROR \notin steps[5].note => ~Exists(fs, P_nodes)

\* a deployment into an empty directory succeeded and left no nodes
LayoutAfterDeploymentWitness ==
  /\ result.returned /\ result.ok
  /\ fs_start = EmptyTree
  /\ ~Exists(fs, P_nodes)
  /\ ~Exists(fs, P_ssl_key)
  /\ IsFile(fs, P_lightnode \o <<"nodes.json">>)

\* "pid", then at least one "=" or whitespace, then a digit, somewhere in s;
\* TokenNumber is the number the digits after the leftmost such place spell
PidTokenAt(s, i, a) ==
  /\ i + 2 <= Len(s) /\ s[i] = "p" /\ s[i + 1] = "i" /\ s[i + 2] = "d"
  /\ a > i + 3 /\ a <= Len(s)
  /\ \A m \in (i + 3)..(a - 1) : s[m] \in Whitespace \cup { "=" }
  /\ s[a] \in DigitChars
HasPidToken(s) == \E i \in 1..Len(s) : \E a \in 1..Len(s) : PidTokenAt(s, i, a)
TokenNumber(s) ==
  LET i == CHOOSE x \in 1..Len(s) :
             /\ \E a \in 1..Len(s) : PidTokenAt(s, x, a)
             /\ \A y \in 1..(x - 1) : \A a \in 1..Len(s) : ~PidTokenAt(s, y, a)
      a == CHOOSE x \in 1..Len(s) : PidTokenAt(s, i, x)
      b == CHOOSE x \in a..Len(s) :
             /\ \A m \in a..x : s[m] \in DigitChars
             /\ (x = Len(s) \/ s[x + 1] \notin DigitChars)
  IN ParseInt(SubSeq(s, a, b))

\* C8: node-start stage.  When start.sh exists, exits with code 0 in time and
\* its stdout holds a pid token, stage 8 returns success and pid_callback,
\* if there is one, was invoked exactly once, with the number of the token
\* (4821 for "launched pid=4821"); when stage 8 failed, pid_callback was not
\* invoked at all.
StartStageSuccess ==
  Len(steps) >= 8 =>
    /\ (start_run.end = "exit" /\ start_run.returncode = 0 /\ HasPidToken(start_run.stdout)) =>
         /\ steps[8].ok
         /\ pid_callback # "None" => pid_calls = <<TokenNumber(start_run.stdout)>>
         /\ pid_callback = "None" => pid_calls = <<>>
         /\ start_run.stdout = OUT_launched => TokenNumber(start_run.stdout) = 4821
    /\ ~steps[8].ok => pid_calls = <<>>

\* start.sh printed "launched pid=4821" and the callback received 4821
StartStageSuccessWitness ==
  /\ Len(steps) >= 8 /\ steps[8].ok
  /\ start_run.stdout = OUT_launched
  /\ pid_calls = <<4821>>

UnsupportedPlatforms == { PLATFORM_win32, PLATFORM_freebsd, PLATFORM_lin }

\* C10: download_binaries on an unsupported platform (win32, or anything
\* that is neither linux... nor darwin) returns failure, issues no request
\* and writes neither bin/fisco-bcos nor fisco-bcos-lightnode.
UnsupportedPlatformNoRequest ==
  (Len(steps) >= 3 /\ platform \in UnsupportedPlatforms) =>
    /\ ~steps[3].ok
    /\ \A e \in Range(trace) : EventStage(e) # 3
    /\ fs[P_bcos] = fs_start[P_bcos] /\ fs[P_lightbin] = fs_start[P_lightbin]
    /\ fs[P_bin] = fs_start[P_bin]

\* download_binaries was called on freebsd13 and failed
UnsupportedPlatformNoRequestWitness ==
  /\ Len(steps) = 3
  /\ platform = PLATFORM_freebsd
  /\ steps[3].msg = <<MSG_BIN_PLATFORM>> \o PLATFORM_freebsd
  /\ pc = RETURNED

\* the positions of runlog holding an entry of the given kind for stage k
LogAt(kind, k) == { i \in 1..Len(runlog) : runlog[i].kind = kind /\ runlog[i].stage = k }

\* C11: step runner.  Every call _run_step(name, fn) reports exactly one
\* progress message, the step name, and reports it before fn is called; fn is
\* called exactly once (no retry), and what _run_step returns is the (success,
\* message) fn returned, unchanged.
StepRunner ==
  /\ \A i \in 1..Len(runlog) : runlog[i].stage \in Range(invoked)
  /\ \A j \in 1..Len(invoked) :
       LET k == invoked[j]
       IN /\ Cardinality(LogAt("progress", k)) = 1
          /\ Cardinality(LogAt("call", k)) = 1
          /\ \A i \in LogAt("progress", k) :
               /\ runlog[i].text = <<StepName(k)>>
               /\ i + 1 \in LogAt("call", k)
          /\ Cardinality({ i \in 1..Len(progress) : progress[i] = <<StepName(k)>> }) = 1
          /\ Cardinality(LogAt("return", k)) = 1
          /\ \A i \in LogAt("return", k) :
               /\ i - 1 \in LogAt("call", k)
               /\ runlog[i].ok = steps[j].ok
               /\ runlog[i].text = steps[j].msg

\* a run in which the third step function returned a failure
StepRunnerWitness ==
  /\ pc = RETURNED
  /\ invoked = <<1, 2, 3>>
  /\ Len(runlog) = 9
  /\ runlog[9].kind = "return"
  /\ ~runlog[9].ok
  /\ runlog[9].text = steps[3].msg

\* -------------------------------------------------------------------------
\* Properties of the console bridge
\* -------------------------------------------------------------------------

\* the output read so far, as one text
RECURSIVE Flatten(_)
Flatten(chunks) == IF chunks = << >> THEN << >> ELSE chunks[1] \o Flatten(Tail(chunks))

\* the positions of child_in where forward_output wrote the sample command
CommandsSent ==
  { i \in 1..Len(child_in) :
      child_in[i] = [by |-> "forward_output", data |-> SAMPLE_COMMAND] }

\* C12: readiness detection.  The sample command is sent at most once in a
\* session, and once the output read so far contains the prompt "[group0]:
\* /apps>" -- in one chunk or across two chunks -- while the forwarding loop
\* runs and the console is alive, the bridge has sent the command to the
\* console.
ReadinessOnAccumulatedOutput ==
  /\ Cardinality(CommandsSent) <= 1
  /\ (fwd_end = "running" /\ child = "alive" /\ Contains(Flatten(reads), READY_PROMPT))
       => Cardinality(CommandsSent) = 1

\* both loops stopped, the websocket closed, the console not running
SessionOver ==
  /\ main_pc = "done"
  /\ fwd_pc \in { "not started", "ended" }
  /\ ws_app = "disconnected"
  /\ child # "alive"

\* C13: session termination.  Once the console process has ended or the
\* remote end has closed the websocket, the session eventually is over: the
\* forwarding loop has stopped, the input loop has stopped, the websocket is
\* closed and the console process is not running.
SessionTerminates ==
  (main_pc # "not called" /\ (child = "exited" \/ ws_client = "disconnected")) ~> SessionOver

\* C14: a timeout is not the end of the stream.  A read that times out
\* leaves the websocket open and untouched and the forwarding loop running
\* (it sleeps, then tests the process again), and after any number of
\* consecutive timeouts a non-empty chunk read from the console, which is
\* still alive, is forwarded to the open websocket.
TimeoutIsNotEndOfStream ==
  [][ /\ (fwd_pc = "read" /\ child_out = << >> /\ child = "alive" /\ fwd_pc' # "read")
         => /\ fwd_pc' = "sleep"
            /\ fwd_end' = "running"
            /\ ws_app' = ws_app
            /\ closes' = closes
            /\ ws_sent' = ws_sent
      /\ (fwd_pc = "sleep" /\ fwd_pc' # "sleep") => (fwd_pc' = "while" /\ fwd_end' = "running")
      /\ (fwd_pc = "read" /\ timeouts = MaxTimeouts /\ child = "alive" /\ reads' # reads
          /\ Head(child_out) # << >> /\ ws_app = "connected" /\ ws_client = "connected")
         => ws_sent' = Append(ws_sent, [by |-> "forward_output", text |-> Head(child_out)])
    ]_vars

\* after the counted number of consecutive timeouts the loop is about to
\* read a chunk the console has written meanwhile
TimeoutIsNotEndOfStreamWitness ==
  /\ fwd_pc = "read"
  /\ fwd_end = "running"
  /\ timeouts = MaxTimeouts
  /\ child = "alive"
  /\ child_out = << CHUNK_prompt_head >>
  /\ ws_app = "connected"
  /\ ws_client = "connected"

\* C15: end of stream.  From the read that raises EOF on, nothing more is
\* sent to the websocket -- no output and no "[ERROR]" notice -- and the
\* websocket is closed, by exactly one close call that took effect.
EndOfStream ==
  [][ fwd_end' = "EOF"
        => /\ ws_sent' = ws_sent
           /\ reads' = reads
           /\ fwd_pc' = "ended"
           /\ ws_app' = "disconnected"
           /\ closes' = 1 ]_vars

\* the console exited after its output was forwarded; the loop ended with
\* EOF and the handler has returned
EndOfStreamWitness ==
  /\ fwd_end = "EOF"
  /\ Len(reads) = MaxChunks
  /\ Len(ws_sent) = MaxChunks
  /\ main_pc = "done"
  /\ closes = 1

\* C16 as stated: only the handler, which receives the input, ever writes to
\* the console.
SingleWriterSingleReader ==
  \A i \in 1..Len(child_in) : child_in[i].by = "console_websocket"

\* C16, amended: the task forward_output writes to the console too, but only
\* the sample command and only once, when it has set init_done; everything
\* else is written by the handler.  Only forward_output takes output from the
\* console and only it changes init_done; only the handler receives from the
\* websocket.
SingleWriterButReadyCommand ==
  /\ [](/\ \A i \in 1..Len(child_in) :
             child_in[i].by = "forward_output" => (i \in CommandsSent /\ init_done)
        /\ Cardinality(CommandsSent) <= 1)
  /\ [][ /\ (Len(child_out') < Len(child_out) \/ reads' # reads \/ init_done' # init_done)
            => fwd_pc = "read"
         /\ received' # received => main_pc = "receive" ]_vars

\* the console got the sample command from forward_output and a text from
\* the handler
SingleWriterButReadyCommandWitness ==
  /\ Cardinality(CommandsSent) = 1
  /\ \E i \in 1..Len(child_in) : child_in[i] = [by |-> "console_websocket", data |-> "quit\n"]
  /\ fwd_end = "running"

IsNotice(entry) == Len(entry.text) = 2 /\ entry.text[1] = ERR_OUTPUT
IsForwarded(entry) == entry.by = "forward_output" /\ ~IsNotice(entry)
IsNonEmpty(chunk) == chunk # << >>
IsByHandler(entry) == entry.by = "console_websocket"

\* the texts of the entries of a sequence
TextsOf(entries) == [i \in 1..Len(entries) |-> entries[i].text]
DataOf(entries) == [i \in 1..Len(entries) |-> entries[i].data]

\* C17: verbatim duplex forwarding.  The output forward_output sent to the
\* websocket is the sequence of the non-empty chunks it read, unmodified and
\* in read order (the last chunk is missing only if send_text raised, which
\* ends the loop); an empty read sends nothing.  The texts the handler wrote
\* to the console are the texts it received, unmodified and in receive order
\* (the last one is missing only if child.send raised, which ends the
\* handler), and these are the texts the remote end sent, in order.
VerbatimForwarding ==
  LET forwarded == TextsOf(SelectSeq(ws_sent, IsForwarded))
      nonempty  == SelectSeq(reads, IsNonEmpty)
      written   == DataOf(SelectSeq(child_in, IsByHandler))
  IN /\ IsPrefix(forwarded, nonempty)
     /\ Len(nonempty) - Len(forwarded) <= 1
     /\ fwd_end # "send_text failed" => forwarded = nonempty
     /\ IsPrefix(written, received)
     /\ Len(received) - Len(written) <= 1
     /\ main_pc = "receive" => written = received
     /\ \A i \in 1..Len(received) : received[i] = TypedText(i)

\* an empty read and a chunk of text were read, the chunk was forwarded; two
\* texts were received and written, with the sample command in between or
\* around them
VerbatimForwardingWitness ==
  /\ reads = << CHUNK_empty, CHUNK_prompt >>
  /\ TextsOf(SelectSeq(ws_sent, IsForwarded)) = << CHUNK_prompt >>
  /\ DataOf(SelectSeq(child_in, IsByHandler)) = << TypedText(1), TypedText(2) >>
  /\ Len(child_in) = 3
  /\ fwd_end = "running"
  /\ main_pc = "receive"

\* C18: a direct call of overlay_lightnode_certificates on a source directory
\* lacking any of node.key, node.crt, ca.crt fails with the message about
\* missing source certificates and leaves the whole tree, the target directory
\* included, as it was; a call that succeeds leaves ssl.key, ssl.crt and ca.crt
\* in the target directory with the contents of node.key, node.crt and ca.crt,
\* whatever copies were there before.
OverlayChecksSources ==
  last_op.op = "overlay_lightnode_certificates" =>
    LET target == P_lightnode \o <<"conf">>
        missing == { p \in { P_node_key, P_node_crt, P_ca_crt } : ~Exists(fs_before, p) }
    IN /\ missing # {} =>
            /\ ~last_op.ok
            /\ last_op.msg = <<MSG_OVERLAY_MISSING>>
            /\ fs = fs_before
       /\ last_op.ok =>
            /\ missing = {}
            /\ IsDir(fs, target)
            /\ fs[target \o <<"ssl.key">>] = fs_before[P_node_key]
            /\ fs[target \o <<"ssl.crt">>] = fs_before[P_node_crt]
            /\ fs[target \o <<"ca.crt">>] = fs_before[P_ca_crt]
            /\ \A p \in { P_node_key, P_node_crt, P_ca_crt } : fs[p] = fs_before[p]

\* ca.crt alone was missing and no target directory existed: the call failed
\* and made none
OverlayChecksSourcesWitness ==
  /\ last_op.op = "overlay_lightnode_certificates"
  /\ last_op.msg = <<MSG_OVERLAY_MISSING>>
  /\ IsFile(fs_before, P_node_key) /\ IsFile(fs_before, P_node_crt)
  /\ ~Exists(fs_before, P_ca_crt)
  /\ ~Exists(fs, P_lightnode)

\* C19: a direct call of run_build looks for build_chain.sh, then
\* bin/fisco-bcos, then fisco-bcos-lightnode; the first one missing decides
\* the message, the three messages differ, the call fails, no subprocess is
\* spawned and the tree is left as it was.
RunBuildPreconditions ==
  [][ (direct' = direct + 1 /\ last_op'.op = "run_build") =>
        LET first_missing ==
              IF ~Exists(fs, P_script) THEN MSG_BUILD_NO_SCRIPT
              ELSE IF ~Exists(fs, P_bcos) THEN MSG_BUILD_NO_BCOS
              ELSE IF ~Exists(fs, P_lightbin) THEN MSG_BUILD_NO_LIGHTBIN
              ELSE "none"
        IN /\ Cardinality({ MSG_BUILD_NO_SCRIPT, MSG_BUILD_NO_BCOS, MSG_BUILD_NO_LIGHTBIN }) = 3
           /\ first_missing # "none" =>
                /\ ~last_op'.ok
                /\ last_op'.msg = <<first_missing>>
                /\ trace' = trace
                /\ fs' = fs
           /\ first_missing = "none" =>
                last_op'.msg \notin { <<MSG_BUILD_NO_SCRIPT>>, <<MSG_BUILD_NO_BCOS>>,
                                      <<MSG_BUILD_NO_LIGHTBIN>> } ]_vars

\* the script was there, both executables were missing: the call named
\* bin/fisco-bcos and spawned nothing
RunBuildPreconditionsWitness ==
  /\ last_op.op = "run_build"
  /\ last_op.msg = <<MSG_BUILD_NO_BCOS>>
  /\ Exists(fs, P_script) /\ ~Exists(fs, P_bcos) /\ ~Exists(fs, P_lightbin)
  /\ EV_BUILD \notin Range(trace)

\* C20 as stated: after a successful promote_and_cleanup on a tree that held
\* output_dir/lightnode, nothing of the old lightnode is left below
\* output_dir/lightnode and the promoted directory is not nested as
\* lightnode/lightnode, also when removing the old lightnode met errors.
CleanReplace ==
  (last_op.op = "promote_and_cleanup" /\ last_op.ok /\ Exists(fs_before, P_lightnode)) =>
    /\ ~Exists(fs, P_lightnode \o <<"lightnode">>)
    /\ \A p \in Under(P_lightnode) : fs[p] # "old content"
    /\ IsDir(fs, P_lightnode)

\* the paths stage k writes, creates or removes
Touches(k) ==
  CASE k = 1 -> Under(P_conf)
    [] k = 2 -> { P_script }
    [] k = 3 -> { P_bin, P_bcos, P_lightbin }
    [] k = 4 -> Under(P_nodes)
    [] k = 5 -> Under(P_nodes) \cup Under(P_lightnode)
    [] k = 6 -> Under(P_lightnode \o <<"conf">>)
    [] k = 7 -> { P_lightnode \o <<"config.genesis">>, P_lightnode \o <<"nodes.json">> }
    [] OTHER -> {}

\* C26: no rollback.  Every step of execute_deployment changes only the
\* paths the stage it runs writes itself, whether the stage succeeds or
\* fails; when stage k fails the files left by stages 1..k-1 outside of
\* what stage k writes are as they were, and the tree the failing stage left
\* is the tree at the return.
NoRollback ==
  [][ /\ \A p \in Paths : fs'[p] # fs[p] => (pc \in 1..LAST_STAGE /\ p \in Touches(pc))
      /\ (pc \in 1..LAST_STAGE /\ pc' = RETURNED /\ ~result'.ok) =>
           \A p \in Paths \ Touches(pc) : fs'[p] = fs[p] /\ fs'[p] = fs_before'[p] ]_vars

\* the build failed after the tool had made nodes: the certificates and the
\* downloads of stages 1 to 3 are in place, next to the nodes directory the
\* failing stage left
NoRollbackWitness ==
  /\ pc = RETURNED
  /\ invoked = <<1, 2, 3, 4>>
  /\ ~last_op.ok
  /\ ~Exists(fs_start, P_conf)
  /\ IsFile(fs, P_node_key) /\ IsFile(fs, P_script) /\ IsFile(fs, P_bcos)
  /\ ~Exists(fs_before, P_nodes) /\ IsDir(fs, P_nodes)

\* the errors of a pass of the loop other than TIMEOUT and EOF
UnexpectedErrors == { "UnicodeDecodeError", "send_text failed", "OSError" }

\* the positions of ws_sent where forward_output sent an "[ERROR]" notice
ErrorNotices ==
  { i \in 1..Len(ws_sent) : ws_sent[i].by = "forward_output" /\ IsNotice(ws_sent[i]) }

\* C27: unexpected bridge errors.  forward_output sends at most one "[ERROR]"
\* notice in a session; the notice names the error the loop ended with, is the
\* last text forward_output sent, and with it the loop has ended and the
\* websocket is closed; after an error that is neither TIMEOUT nor EOF the
\* loop has ended and the websocket is closed also when the notice could not
\* be sent.
UnexpectedErrorEndsForwarding ==
  /\ Cardinality(ErrorNotices) <= 1
  /\ \A i \in ErrorNotices :
       /\ fwd_pc = "ended"
       /\ ws_app = "disconnected"
       /\ ws_sent[i].text[2] = fwd_end
       /\ fwd_end \in UnexpectedErrors
       /\ \A j \in (i + 1)..Len(ws_sent) : ws_sent[j].by # "forward_output"
  /\ fwd_end \in UnexpectedErrors =>
       /\ fwd_pc = "ended"
       /\ ws_app = "disconnected"
       /\ closes <= 1

\* a chunk could not be decoded after another was forwarded: one notice went
\* out and the websocket was closed
UnexpectedErrorEndsForwardingWitness ==
  /\ fwd_end = "UnicodeDecodeError"
  /\ Cardinality(ErrorNotices) = 1
  /\ \E n \in 1..Len(ws_sent) : IsForwarded(ws_sent[n])
  /\ closes = 1
  /\ fwd_pc = "ended"

\* C28 as stated: no output is lost at exit.  When the forwarding loop has
\* ended because the console exited, no text of the console is left unread,
\* and every non-empty chunk that was read was sent to the websocket.
NoOutputLostAtExit ==
  (fwd_pc = "ended" /\ fwd_end \in { "not alive", "EOF" }) =>
    /\ SelectSeq(child_out, IsNonEmpty) = << >>
    /\ Len(SelectSeq(ws_sent, IsForwarded)) = Len(SelectSeq(reads, IsNonEmpty))

\* C29: auto-command ordering.  Whenever forward_output has written
\* "getBlockNumber\n" to the console, a chunk containing the prompt has been
\* read and that chunk has been sent to the websocket, and init_done is true;
\* a step that writes the command reads such a chunk and sends it in the same
\* pass; init_done never goes back from true to false.
AutoCommandOrdering ==
  /\ [](CommandsSent # {} =>
          /\ init_done
          /\ \E j \in 1..Len(reads) :
               /\ Contains(reads[j], READY_PROMPT)
               /\ \E n \in 1..Len(ws_sent) :
                    ws_sent[n] = [by |-> "forward_output", text |-> reads[j]])
  /\ [][ /\ init_done => init_done'
         /\ CommandsSent' # CommandsSent =>
              /\ Len(reads') = Len(reads) + 1
              /\ Contains(reads'[Len(reads')], READY_PROMPT)
              /\ Len(ws_sent') = Len(ws_sent) + 1
              /\ ws_sent'[Len(ws_sent')].text = reads'[Len(reads')]
              /\ ~init_done /\ init_done' ]_vars

\* the prompt was read in the second chunk, forwarded, and the command written
AutoCommandOrderingWitness ==
  /\ Cardinality(CommandsSent) = 1
  /\ init_done
  /\ Len(reads) = 2
  /\ Contains(reads[2], READY_PROMPT) /\ ~Contains(reads[1], READY_PROMPT)
  /\ Len(SelectSeq(ws_sent, IsForwarded)) = 2

\* C30 as stated: after a successful promote_and_cleanup on a tree that held a
\* directory named sdk somewhere under output_dir/nodes, output_dir/lightnode/sdk
\* is a directory holding the contents of such an sdk directory.
SdkPromoted ==
  (last_op.op = "promote_and_cleanup" /\ last_op.ok
     /\ \E q \in Under(P_nodes) : Basename(q) = "sdk" /\ IsDir(fs_before, q)) =>
    /\ IsDir(fs, P_lightnode \o <<"sdk">>)
    /\ \E src \in { q \in Under(P_nodes) : Basename(q) = "sdk" /\ IsDir(fs_before, q) } :
         \A q \in Under(src) :
            fs_before[q] # ABSENT => fs[P_lightnode \o <<"sdk">> \o Suffix(src, q)] = fs_before[q]

\* C30 amended: after a successful promote_and_cleanup, if the search made
\* after the light node was placed found a directory named sdk under
\* output_dir/nodes and copying it raised nothing, output_dir/lightnode/sdk is
\* a directory holding exactly the contents of that sdk directory; a copy that
\* raised is ignored and the call succeeds all the same; on a tree without
\* any sdk directory under nodes the call makes no copy and succeeds.
SdkPromotedUnlessCopyFailed ==
  (last_op.op = "promote_and_cleanup" /\ last_op.ok) =>
    LET found == WalkFind(fs_before, P_nodes, "sdk")
        dst   == P_lightnode \o <<"sdk">>
    IN /\ Cardinality(last_op.note \cap { N_SDK_COPIED, N_SDK_FAILED }) <= 1
       /\ N_SDK_COPIED \in last_op.note =>
            /\ IsDir(fs, dst)
            /\ \E src \in found :
                 \A q \in Under(dst) :
                    /\ (src \o Suffix(dst, q)) \in Paths
                    /\ fs[q] = fs_before[src \o Suffix(dst, q)]
       /\ N_SDK_FAILED \in last_op.note => found # {}
       /\ found = {} => last_op.note \cap { N_SDK_COPIED, N_SDK_FAILED } = {}

\* the sdk next to the built light node replaced the sdk of an earlier light
\* node
SdkPromotedUnlessCopyFailedWitness ==
  /\ last_op.op = "promote_and_cleanup" /\ last_op.ok
  /\ N_SDK_COPIED \in last_op.note
  /\ fs_before[P_lightnode \o <<"sdk", "sdk.crt">>] = "old content"
  /\ fs[P_lightnode \o <<"sdk", "sdk.crt">>] = C_SDKCRT
  /\ ~Exists(fs, P_nodes)

\* C21 as stated: the empty-directory precondition.  Every deployment task
\* scheduled through POST /api/deploy begins its first stage on a directory
\* that is empty, and a refused request has no task, whatever the order of
\* the requests and the tasks.
EmptyDirectoryPrecondition ==
  \A r \in Requests :
    /\ empty_at_start[r] \in { "n/a", "empty" }
    /\ req[r] = "refused" => empty_at_start[r] = "n/a"

\* C22 as stated: on a node directory that is not empty GET
\* /api/deploy/check_dir is answered with success, and POST
\* /api/deploy/overwrite is answered with success and leaves the directory
\* empty.
CheckDirAndOverwrite ==
  /\ (last_call.name = <<"GET", "/api/deploy/check_dir">> /\ occupied(fs)) =>
       last_call.status = 200 /\ last_call.success
  /\ last_call.name = <<"POST", "/api/deploy/overwrite">> =>
       last_call.status = 200 /\ last_call.success /\ ~occupied(fs)

\* C23 as stated: after load_last_session found a saved session while no
\* lightnode/conf/node.nodeid is under the node directory, deployed_node_id
\* and node_pid are None.
LoadClearsUndeployedNode ==
  (last_call.name = <<"call", "load_last_session">> /\ session_file.kind = "json"
     /\ ~nodeid_in_dir.exists) =>
    deployed_node_id = "None" /\ node_pid = NoPid

\* C24 as stated: after save_session ran while lightnode/conf/node.nodeid
\* exists under current_node_dir, state.deployed_node_id is the id stored in
\* that file.
SaveAdoptsRealNodeId ==
  (last_call.name = <<"call", "save_session">> /\ nodeid_in_dir.exists) =>
    deployed_node_id = readline(nodeid_in_dir.lines)

\* C25 as stated: when a deployment task has finished with success, stage 8
\* having parsed the pid p from the output of start.sh, state.node_pid is p,
\* so that is_pid_alive(state.node_pid) holds while p is alive.
PidHandedToState ==
  (last_call.name = <<"task", "run_deployment_task">> /\ last_call.success) =>
    /\ node_pid = << ParseInt(pid_match(Strip(start_run.stdout))) >>
    /\ is_pid_alive(node_pid, TRUE)

\* -------------------------------------------------------------------------
\* C31 as stated: data flows through one output directory, for any
\* output_dir: when stage 9 looked for the node's sdk files, it looked in
\* lightnode/sdk under the output_dir of the same deployment, and it found
\* them whenever that deployment left them there.
\* -------------------------------------------------------------------------
DataFlowThroughOutputDir ==
  (9 \in Range(invoked) /\ sdk_read # << >>) =>
    /\ sdk_read = output_dir \o P_lightnode \o <<"sdk">>
    /\ IsDir(fs, P_lightnode \o <<"sdk">>) =>
         last_op.msg # <<MSG_CONSOLE_FAILED, "node sdk directory does not exist">>

\* -------------------------------------------------------------------------
\* C32: run_build and promote_and_cleanup agree on where the light node is:
\* a promote_and_cleanup called right after a run_build that returned
\* success, on the same directory, fails neither with "nodes directory not
\* found" nor with "no lightnode directory found under nodes".
\* -------------------------------------------------------------------------
BuildPromoteAgreement ==
  [][ (last_op.op = OpName(4) /\ last_op.ok /\ last_op'.op = OpName(5)) =>
        last_op'.msg \notin { <<MSG_PROMOTE_NO_NODES>>, <<MSG_PROMOTE_NO_LIGHTNODE>> } ]_vars

\* a build left the light node one level deeper, at nodes/127.0.0.1, and the
\* promotion that followed found it there
BuildPromoteAgreementWitness ==
  /\ direct = 2
  /\ EV_BUILD \in Range(trace)
  /\ last_op.op = OpName(5)
  /\ last_op.ok
  /\ ~IsDir(fs_before, P_nodes \o <<"lightnode">>)
  /\ IsDir(fs_before, P_host \o <<"lightnode">>)
  /\ IsDir(fs, P_lightnode)

\* a directory named lightnode at nodes/lightnode or anywhere under nodes
LightnodeUnderNodes(f) ==
  \E p \in Paths : /\ Len(p) > Len(P_nodes)
                   /\ SubSeq(p, 1, Len(P_nodes)) = P_nodes
                   /\ p[Len(p)] = "lightnode"
                   /\ f[p] = DIR

\* what run_build returns for exit code 0, and that it never raises
RunBuildAfterExit ==
  /\ N_RAISED \notin last_op.note
  /\ build_run.returncode = 0 =>
       /\ last_op.ok <=> LightnodeUnderNodes(fs)
       /\ last_op.ok => last_op.msg = <<MSG_BUILD_OK>>
       /\ ~last_op.ok => last_op.msg = <<MSG_BUILD_NO_LIGHTNODE>>

\* C33 as stated: a non-zero exit code yields failure carrying stderr, or
\* stdout when stderr is empty; exit code 0 yields success only if a
\* directory named lightnode is at nodes/lightnode or somewhere under nodes,
\* else the failure "built but lightnode directory not found"; run_build
\* never raises.
RunBuildOutcome ==
  (last_op.op = OpName(4) /\ build_run # NoBuildRun) =>
    /\ RunBuildAfterExit
    /\ build_run.returncode # 0 =>
         /\ ~last_op.ok
         /\ last_op.msg = <<MSG_BUILD_FAILED,
                            IF build_run.stderr # "" THEN strip(build_run.stderr)
                            ELSE strip(build_run.stdout)>>

\* C33 amended: a non-zero exit code yields failure carrying stderr without
\* its leading and trailing whitespace, or stdout likewise when nothing is
\* left of stderr; the rest as stated.
RunBuildOutcomeStripped ==
  (last_op.op = OpName(4) /\ build_run # NoBuildRun) =>
    /\ RunBuildAfterExit
    /\ build_run.returncode # 0 =>
         /\ ~last_op.ok
         /\ last_op.msg = <<MSG_BUILD_FAILED,
                            IF strip(build_run.stderr) # "" THEN strip(build_run.stderr)
                            ELSE strip(build_run.stdout)>>

\* the build tool failed printing a newline on stderr and a text on stdout,
\* and run_build returned the text of stdout
RunBuildOutcomeStrippedWitness ==
  /\ last_op.op = OpName(4)
  /\ build_run.returncode = 1
  /\ build_run.stderr = "\n"
  /\ build_run.stdout = "stdout text\n"
  /\ last_op.msg = <<MSG_BUILD_FAILED, "stdout text">>

\* the StepResult of stage k of the deployment
StepOf(k) == steps[CHOOSE i \in 1..Len(steps) : steps[i].stage = k]

\* C34: the node-start stage returns failure, and never invokes
\* pid_callback, when start.sh is missing, when it exits non-zero (even if
\* its stdout holds a pid token) or when it exceeds the timeout; when the
\* stage succeeds, an exception raised by pid_callback is swallowed and the
\* stage still returns success.
NodeStartFailureModes ==
  (\E i \in 1..Len(steps) : steps[i].stage = 8) =>
    /\ ( \/ start_run = NotRun
         \/ start_run.end = "timeout"
         \/ (start_run.end = "exit" /\ start_run.returncode # 0) )
       => (~StepOf(8).ok /\ pid_calls = << >>)
    /\ ( /\ start_run.end = "exit"
         /\ start_run.returncode = 0
         /\ pid_match(Strip(start_run.stdout)) # << >> )
       => /\ StepOf(8).ok
          /\ N_RAISED \notin StepOf(8).note
          /\ 9 \in Range(invoked) \/ pc = 9

\* start.sh exited non-zero printing a pid token, and the stage failed
\* without a call of the callback
NodeStartFailureModesWitness ==
  /\ \E i \in 1..Len(steps) : steps[i].stage = 8
  /\ pid_callback = "records"
  /\ start_run.end = "exit"
  /\ start_run.returncode = 1
  /\ start_run.stdout = OUT_launched
  /\ ~StepOf(8).ok
  /\ pid_calls = << >>

\* start.sh printed a pid, the callback raised, and the stage succeeded
NodeStartCallbackRaisedWitness ==
  /\ \E i \in 1..Len(steps) : steps[i].stage = 8
  /\ pid_callback = "raises"
  /\ pid_calls = << 4821 >>
  /\ StepOf(8).ok
  /\ result = Returns(TRUE, <<MSG_DEPLOY_OK>>)

\* the messages the claim lets a finished stage emit, with inner the
\* messages between the name of the stage and its outcome
StageMessages(st, inner) ==
  << <<StepName(st.stage)>> >>
  \o inner
  \o (IF st.ok THEN << <<"[SUCCESS] ">> \o st.msg >>
      ELSE IF st.stage = 9 THEN << <<"[WARN] ">> \o st.msg >>
      ELSE << >>)

RECURSIVE StreamOf(_, _)
StreamOf(sts, inner9) ==
  IF sts = << >> THEN << >>
  ELSE StageMessages(sts[1], IF sts[1].stage = 9 THEN inner9 ELSE << >>)
       \o StreamOf(Tail(sts), inner9)

\* a failing stage up to 8 is the last one, and its name the last message
FailureEndsStream ==
  \A j \in 1..Len(steps) :
    (steps[j].stage <= 8 /\ ~steps[j].ok) =>
      /\ j = Len(steps)
      /\ progress[Len(progress)] = <<StepName(steps[j].stage)>>

\* C35 as stated: the progress messages are name_1, [SUCCESS] m_1, name_2,
\* [SUCCESS] m_2, ... truncated at the first failing stage; the name of a
\* failing stage up to 8 is the last message; stage 9 adds exactly one of
\* [SUCCESS] and [WARN] to its name.
ProgressStreamShape ==
  /\ progress = StreamOf(steps, << >>)
  /\ FailureEndsStream

\* C35 amended: as stated, but in stage 9 the step function itself reports
\* "deploying the console..." between the name of the stage and the one
\* [SUCCESS] or [WARN].
ProgressStreamShapeWithConsoleMessage ==
  /\ progress = StreamOf(steps, << <<MSG_CONSOLE_PROGRESS>> >>)
  /\ FailureEndsStream

\* a run through all nine stages whose console deployment failed: nineteen
\* messages, the last one the warning
ProgressStreamShapeWitness ==
  /\ pc = RETURNED
  /\ Len(steps) = 9
  /\ Len(progress) = 19
  /\ progress[17] = <<StepName(9)>>
  /\ progress[18] = <<MSG_CONSOLE_PROGRESS>>
  /\ progress[19][1] = "[WARN] "

\* C36: missing collaborator.  If the certificate client or the asset client
\* module is unavailable, execute_deployment returns failure at once: no
\* progress message, no stage, no request, the output directory untouched.
MissingCollaborator ==
  (pc # NOT_CALLED /\ (~clients.cert \/ ~clients.asset)) =>
    /\ pc = RETURNED
    /\ result = Returns(FALSE, <<MSG_NO_CLIENTS>>)
    /\ progress = << >>
    /\ invoked = << >>
    /\ runlog = << >>
    /\ trace = << >>
    /\ fs = fs_start

\* execute_deployment returned on a directory holding an earlier deployment,
\* the asset client missing
MissingCollaboratorWitness ==
  /\ pc = RETURNED
  /\ clients = [cert |-> TRUE, asset |-> FALSE]
  /\ result = Returns(FALSE, <<MSG_NO_CLIENTS>>)
  /\ fs = Apply(EmptyTree, OldTree)

\* the positions of a request in the trace
PositionsOf(e) == { i \in 1..Len(trace) : trace[i] = e }

\* C37: chain-asset stage.  Stage 7 downloads the genesis first and the node
\* list second; when the genesis download fails the node list is not
\* requested and the stage fails with the genesis message; when the
\* node-list download fails the stage fails with that message and the
\* config.genesis already written stays; the stage succeeds only if both do.
ChainAssetStage ==
  last_op.op = OpName(7) =>
    LET genesis_path == P_lightnode \o <<"config.genesis">>
        nodes_path   == P_lightnode \o <<"nodes.json">>
    IN /\ Cardinality(PositionsOf(EV_GET_GENESIS)) = 1
       /\ \A i \in PositionsOf(EV_GET_NODES) : \A j \in PositionsOf(EV_GET_GENESIS) : j < i
       /\ last_op.msg[1] \in { MSG_GENESIS_NET, MSG_GENESIS_SAVE } =>
            /\ ~last_op.ok
            /\ PositionsOf(EV_GET_NODES) = {}
            /\ fs = fs_before
       /\ last_op.msg[1] \in { MSG_NODES_NET, MSG_NODES_SAVE, MSG_NODES_FORMAT } =>
            /\ ~last_op.ok
            /\ fs[genesis_path] = C_GENESIS
            /\ fs[nodes_path] = fs_before[nodes_path]
       /\ last_op.ok <=> last_op.msg = <<MSG_GENESIS_OK, "; ", MSG_NODES_OK>>
       /\ last_op.ok =>
            /\ fs[genesis_path] = C_GENESIS
            /\ fs[nodes_path] = C_NODES
            /\ Cardinality(PositionsOf(EV_GET_NODES)) = 1

\* the genesis was written, then the node list had the wrong format
ChainAssetStageWitness ==
  /\ last_op.op = OpName(7)
  /\ ~last_op.ok
  /\ last_op.msg = <<MSG_NODES_FORMAT>>
  /\ fs[P_lightnode \o <<"config.genesis">>] = C_GENESIS
  /\ fs_before[P_lightnode \o <<"config.genesis">>] # C_GENESIS
  /\ PositionsOf(EV_GET_NODES) # {}

PushedMessages == [n \in 1..pushed |-> LogMessage(n)]

\* C39 as stated: the progress sink is push-only and ordered.  A push never
\* blocks and never fails, with or without an observer; and an observer
\* connected to /api/logs/stream eventually receives every message pushed,
\* each exactly once and in push order.
ProgressSink ==
  /\ [](pushed < MaxPushed => ENABLED PushLogSync)
  /\ [](delivered = SubSeq(PushedMessages, 1, Len(delivered)))
  /\ \A k \in 1..MaxPushed :
       (obs_pc # <<"not connected">> /\ pushed >= k) ~> (Len(delivered) >= k)

\* C40: copy_ssl_certificates is idempotent and non-overwriting.  A call
\* with conf/node.key or conf/node.crt missing fails and writes nothing; any
\* other call changes nothing but conf/ssl.key and conf/ssl.crt, each only
\* where it did not exist and then to the content of node.key and node.crt,
\* and a call that succeeds leaves both in place; a call that follows a
\* successful call returns success and changes nothing.
CopySslIdempotent ==
  [][ direct' = direct + 1 /\ last_op'.op = "copy_ssl_certificates" =>
        /\ (~Exists(fs, P_node_key) \/ ~Exists(fs, P_node_crt))
             => ~last_op'.ok /\ fs' = fs /\ last_op'.msg = <<MSG_COPY_SSL_MISSING>>
        /\ \A p \in Paths : fs'[p] # fs[p] => p \in { P_ssl_key, P_ssl_crt } /\ ~Exists(fs, p)
        /\ fs'[P_ssl_key] # fs[P_ssl_key] => fs'[P_ssl_key] = fs[P_node_key]
        /\ fs'[P_ssl_crt] # fs[P_ssl_crt] => fs'[P_ssl_crt] = fs[P_node_crt]
        /\ last_op'.ok => Exists(fs', P_ssl_key) /\ Exists(fs', P_ssl_crt)
        /\ (last_op.op = "copy_ssl_certificates" /\ last_op.ok)
             => last_op'.ok /\ fs' = fs /\ last_op'.msg = <<MSG_COPY_SSL_EXIST>>
    ]_vars

\* a second call has succeeded and changed nothing, after a first call that
\* created ssl.key from node.key and kept the ssl.crt it found
CopySslIdempotentWitness ==
  /\ direct = 2
  /\ last_op.op = "copy_ssl_certificates" /\ last_op.ok
  /\ fs = fs_before
  /\ fs_start[P_ssl_key] = ABSENT /\ fs[P_ssl_key] = C_KEY
  /\ fs_start[P_ssl_crt] = "old content" /\ fs[P_ssl_crt] = "old content"

====
